---------------------------- MODULE Spec2Model ----------------------------
(***************************************************************************)
(* Session store (contexts/chat-history-context.tsx), status poller        *)
(* (components/status-polling.tsx) and submission flow                     *)
(* (components/video-generator.tsx) of the AI media-generation studio      *)
(* front end, as a state machine.                                          *)
(*                                                                         *)
(* React state is modelled as a pair: the value the last render committed  *)
(* (what every closure of that render reads: sessions, activeSessionId)    *)
(* and the value after every updater enqueued since (nextSessions,         *)
(* nextActiveSessionId).  setSessions(fn) applies fn to the queued value,  *)
(* in call order, which is what React's update queue computes at the next  *)
(* render; Render commits the queued value.                                *)
(*                                                                         *)
(* A prompt is the sequence of its words and blanks (" "); every prompt the *)
(* model types trims to the one word "lesson", the text of the user        *)
(* message.                                                                *)
(*                                                                         *)
(* Not modelled: timestamps of messages and status entries, message ids,   *)
(* the text of the wall clock inside status-log strings, the content of    *)
(* attached files, React StrictMode's second run of effects and the exit   *)
(* animation that delays the unmount of StatusPolling.                     *)
(***************************************************************************)
EXTENDS Integers, Sequences, FiniteSets, TLC

VARIABLES
    sessions,            \* useState<ChatSession[]>: value of the last render
    activeSessionId,     \* useState<string|null>: value of the last render
    nextSessions,        \* sessions after the updaters enqueued since that render
    nextActiveSessionId, \* activeSessionId after the enqueued updates
    uuidCount,           \* number of crypto.randomUUID() results drawn so far
    clock,               \* Date.now(), advanced by the operations that read it
    ops,                 \* number of store operations issued (bounded by MaxOps)
    ideal,               \* history variable: the operations applied one after another
    appended,            \* history variable: every status line appended to the log
    last,                \* history variable: the last operation, its arguments and pre-state
    stored,              \* localStorage["vit-chat-history"], as JSON.parse reads it
    loaded,              \* what readStorage returned: the sessions state at construction
    prevLoaded,          \* history variable: loaded of the page load before
    loads,               \* number of page loads
    persisted,           \* whether the effect on [sessions] has written loaded back
    crashed,             \* whether an exception escaped readStorage at a page load
    storedActive,        \* localStorage["vit-active-session"] (Null: no such record)
    vg,                  \* VideoGenerator state of the last render
    nextVg,              \* VideoGenerator state after the enqueued updates
    poller,              \* the StatusPolling instance of the last render: props and state
    nextPoller,          \* its isPolling and failureCount after the enqueued updates
    lastStatusRef,       \* lastStatusRef.current of every instance mounted so far
    timer,               \* the pollStatus closures a live setInterval will call
    inflight,            \* status queries awaiting their response, in the order sent
    requests,            \* submitToolRequest calls awaiting their response
    remote,              \* the stage of every job at the server (0: no such job)
    network,             \* "up" or "down"
    pending,             \* whether a state update was enqueued since the last render
    submits,             \* number of handleSubmit calls
    posts,               \* number of POST requests submitToolRequest has issued
    server,              \* how the generation endpoint answers a POST
    limits,              \* what bounds the behaviours of the specification
    queries,             \* number of status queries sent while the network was up
    retries,             \* number of status queries sent while it was down
    observed,            \* history variable: the stages successful responses carried, per job
    consecFails,         \* history variable: failed responses since the last successful one
    giveUps,             \* history variable: onError("Connection lost...") calls, per job
    lateQueries          \* history variable: queries issued after the give-up, per job

storeVars == <<sessions, activeSessionId, nextSessions, nextActiveSessionId,
               uuidCount, ops, ideal, appended, last>>

normVars == <<stored, loaded, prevLoaded, loads, persisted, crashed, storedActive>>

pollVars == <<vg, nextVg, poller, nextPoller, lastStatusRef, timer, inflight,
              requests, remote, network, pending, submits, posts, server,
              limits, queries, retries, observed, consecFails, giveUps, lateQueries>>

vars == <<storeVars, clock, normVars, pollVars>>

-----------------------------------------------------------------------------
(* Bounds of the model *)

MaxOps == 2

MaxUuid == 2

MaxAppends == 3

MaxDamaged == 2

MaxLoads == 2

MaxSubmits == 1

MaxQueries == 3

MaxRetries == 11

MaxFaults == 2

MaxInFlight == 2

MaxJobQueries == 2

MaxJobFaults == 1

MaxJobInFlight == 1

MaxResubmits == 2

(* Program constants *)

StatusCap == 50

\* if (nextFailures > 10)
GiveUpAfter == 10

-----------------------------------------------------------------------------
(* Values *)

Null == "<null>"

SessionIds == {"s1", "s2"}

\* the results of crypto.randomUUID(), in the order drawn
UuidPool == <<
    "u1", "u2", "u3", "u4", "u5", "u6", "u7", "u8", "u9", "u10",
    "u11", "u12", "u13", "u14", "u15", "u16", "u17", "u18", "u19",
    "u20", "u21", "u22", "u23", "u24", "u25", "u26", "u27", "u28",
    "u29", "u30", "u31", "u32", "u33", "u34", "u35", "u36", "u37",
    "u38", "u39", "u40", "u41", "u42", "u43", "u44", "u45", "u46",
    "u47", "u48", "u49", "u50", "u51", "u52", "u53", "u54", "u55",
    "u56", "u57", "u58", "u59", "u60", "u61", "u62", "u63", "u64">>

JobIds == {"j1", "j2"}

\* String(null)
NullText == "null"

\* the job ids a status query may carry
PolledIds == JobIds \cup {NullText}

Has(r, k) == k \in DOMAIN r

\* { ...a, ...b }
Spread(a, b) ==
    [k \in (DOMAIN a) \cup (DOMAIN b) |-> IF k \in DOMAIN b THEN b[k] ELSE a[k]]

\* array.slice(-n)
SliceLast(s, n) ==
    IF Len(s) <= n THEN s ELSE SubSeq(s, Len(s) - n + 1, Len(s))

\* prev.findIndex(item => item.id === id), 0 standing for -1
findIndex(prev, id) ==
    IF \E i \in 1..Len(prev) : prev[i].id = id
    THEN CHOOSE i \in 1..Len(prev) :
            prev[i].id = id /\ \A j \in 1..(i - 1) : prev[j].id # id
    ELSE 0

\* prev.filter(session => session.id !== id)
RECURSIVE FilterOut(_, _)
FilterOut(prev, id) ==
    IF prev = <<>> THEN <<>>
    ELSE IF Head(prev).id = id THEN FilterOut(Tail(prev), id)
         ELSE <<Head(prev)>> \o FilterOut(Tail(prev), id)

-----------------------------------------------------------------------------
(* Records of the store *)

EmptyJobs == [k \in {} |-> Null]

\* A session as ensureSession builds it (no pinned key)
NewSession(id, prompt, now) ==
    [id |-> id, prompt |-> prompt, tool |-> "video", model |-> "aws-nova-reel",
     createdAt |-> now, videoUrl |-> Null, statusHistory |-> <<>>,
     attachments |-> <<>>, messages |-> <<>>, jobId |-> Null,
     jobs |-> EmptyJobs]

\* A job as handleSubmit registers it
NewJob(id, tool, status, progress) ==
    [id |-> id, tool |-> tool, model |-> "aws-nova-reel",
     status |-> status, progress |-> progress, history |-> <<>>]

Entry(status, progress) == [status |-> status, progress |-> progress]

\* `${new Date().toLocaleTimeString()} • ${text}`
StatusLine(at, text) == <<at, text>>

Message(role, content, status, jobId) ==
    [role |-> role, content |-> content, status |-> status, jobId |-> jobId]

-----------------------------------------------------------------------------
(* The updaters handed to setSessions, as functions of prev *)

createSessionAtBack(prev, session) ==
    LET existingIndex == findIndex(prev, session.id)
        keep(old) ==
            [messages |-> IF Has(session, "messages") THEN session.messages
                          ELSE old.messages,
             jobs |-> IF Has(session, "jobs") THEN session.jobs ELSE old.jobs]
    IN  IF existingIndex # 0
        THEN [prev EXCEPT ![existingIndex] =
                 Spread(Spread(prev[existingIndex], session), keep(prev[existingIndex]))]
        ELSE prev \o <<Spread(session, keep([messages |-> <<>>, jobs |-> EmptyJobs]))>>

createSession(prev, session) ==
    LET existingIndex == findIndex(prev, session.id)
        keep(old) ==
            [messages |-> IF Has(session, "messages") THEN session.messages
                          ELSE old.messages,
             jobs |-> IF Has(session, "jobs") THEN session.jobs ELSE old.jobs]
    IN  IF existingIndex # 0
        THEN [prev EXCEPT ![existingIndex] =
                 Spread(Spread(prev[existingIndex], session), keep(prev[existingIndex]))]
        ELSE <<Spread(session, keep([messages |-> <<>>, jobs |-> EmptyJobs]))>> \o prev

appendStatusKeepOldest(prev, id, status) ==
    [i \in 1..Len(prev) |->
        IF prev[i].id = id
        THEN [prev[i] EXCEPT !.statusHistory =
                 SubSeq(Append(@, status), 1,
                        IF Len(@) + 1 <= StatusCap THEN Len(@) + 1 ELSE StatusCap)]
        ELSE prev[i]]

appendStatus(prev, id, status) ==
    [i \in 1..Len(prev) |->
        IF prev[i].id = id
        THEN [prev[i] EXCEPT !.statusHistory = SliceLast(Append(@, status), StatusCap)]
        ELSE prev[i]]

updateSession(prev, id, payload) ==
    [i \in 1..Len(prev) |->
        IF prev[i].id = id THEN Spread(prev[i], payload) ELSE prev[i]]

appendMessage(prev, id, message) ==
    [i \in 1..Len(prev) |->
        IF prev[i].id = id
        THEN [prev[i] EXCEPT !.messages = Append(@, message)]
        ELSE prev[i]]

registerJobKeyedByTool(prev, sessionId, job) ==
    [i \in 1..Len(prev) |->
        IF prev[i].id = sessionId
        THEN [prev[i] EXCEPT !.jobs =
                 [k \in (DOMAIN @) \cup {job.tool} |-> IF k = job.tool THEN job ELSE @[k]]]
        ELSE prev[i]]

\* { ...session.jobs, [job.id]: job }
registerJob(prev, sessionId, job) ==
    [i \in 1..Len(prev) |->
        IF prev[i].id = sessionId
        THEN [prev[i] EXCEPT !.jobs =
                 [k \in (DOMAIN @) \cup {job.id} |-> IF k = job.id THEN job ELSE @[k]]]
        ELSE prev[i]]

updateJobUpserting(prev, sessionId, jobId, payload) ==
    [i \in 1..Len(prev) |->
        IF prev[i].id # sessionId THEN prev[i]
        ELSE [prev[i] EXCEPT !.jobs =
                 [k \in (DOMAIN @) \cup {jobId} |->
                     IF k # jobId THEN @[k]
                     ELSE IF jobId \in DOMAIN @ THEN Spread(@[jobId], payload)
                     ELSE payload]]]

updateJob(prev, sessionId, jobId, payload) ==
    [i \in 1..Len(prev) |->
        IF prev[i].id # sessionId THEN prev[i]
        ELSE IF jobId \notin DOMAIN prev[i].jobs THEN prev[i]
        ELSE [prev[i] EXCEPT !.jobs[jobId] = Spread(@, payload)]]

appendJobStatusHistoryOnly(prev, sessionId, jobId, status, progress) ==
    [i \in 1..Len(prev) |->
        IF prev[i].id # sessionId THEN prev[i]
        ELSE IF jobId \notin DOMAIN prev[i].jobs THEN prev[i]
        ELSE [prev[i] EXCEPT !.jobs[jobId].history = Append(@, Entry(status, progress))]]

appendJobStatus(prev, sessionId, jobId, status, progress) ==
    [i \in 1..Len(prev) |->
        IF prev[i].id # sessionId THEN prev[i]
        ELSE IF jobId \notin DOMAIN prev[i].jobs THEN prev[i]
        ELSE [prev[i] EXCEPT !.jobs[jobId] =
                 Spread(@, [status |-> status, progress |-> progress,
                            history |-> Append(@.history, Entry(status, progress))])]]

deleteSession(prev, id) == FilterOut(prev, id)

\* setActiveSessionId(current => current === id ? null : current)
deleteSessionActiveAlwaysNull(current, id) == Null

deleteSessionActive(current, id) == IF current = id THEN Null ELSE current

\* !session.pinned, an absent pinned being falsy
togglePinSession(prev, id) ==
    [i \in 1..Len(prev) |->
        IF prev[i].id = id
        THEN Spread(prev[i],
                    [pinned |-> ~(Has(prev[i], "pinned") /\ prev[i].pinned)])
        ELSE prev[i]]

\* the clone duplicateSession builds from the session it found
cloneOf(source, uuid, now) ==
    Spread(source, [id |-> uuid, createdAt |-> now,
                    prompt |-> Append(source.prompt, "(copy)"),
                    messages |-> source.messages, jobs |-> source.jobs,
                    pinned |-> FALSE])

\* what duplicateSession hands to setSessions and setActiveSessionId, given the
\* collection it searches for the source: the sessions of the render whose
\* closure is called
duplicateSessionFromLatest(snapshot, prev, id, uuid, now) ==
    IF findIndex(prev, id) = 0 THEN prev
    ELSE <<cloneOf(prev[findIndex(prev, id)], uuid, now)>> \o prev

duplicateSession(snapshot, prev, id, uuid, now) ==
    IF findIndex(snapshot, id) = 0 THEN prev
    ELSE <<cloneOf(snapshot[findIndex(snapshot, id)], uuid, now)>> \o prev

\* the storage variables where no page load is modelled
NormIdle ==
    /\ stored = <<>>
    /\ loaded = <<>>
    /\ prevLoaded = <<>>
    /\ loads = 0
    /\ persisted = FALSE
    /\ crashed = FALSE
    /\ storedActive = Null

\* lib/model-config.ts: the endpoint path of every model, by tool
MODEL_CONFIG ==
    [video |-> <<<<"aws-nova-reel", "/api/video/nova">>,
                 <<"text-to-video-ms-1.7b", "/api/video/ali-vilab/text-to-video-ms-1.7b">>,
                 <<"cerspense/zeroscope_v2_576w", "/api/video/cerspense/zeroscope_v2_576w">>,
                 <<"Lightricks/LTX-Video-0.9.7-dev",
                   "/api/video/Lightricks/LTX-Video-0.9.7-dev">>,
                 <<"camenduru/potat1", "/api/video/camenduru/potat1">>>>,
     image |-> <<<<"stabilityai/stable-diffusion-xl-base-1.0",
                   "/api/image/stabilityai/stable-diffusion-xl-base-1.0">>,
                 <<"stable-diffusion-v1-5/stable-diffusion-v1-5",
                   "/api/image/stable-diffusion-v1-5/stable-diffusion-v1-5">>,
                 <<"Lykon/DreamShaper", "/api/image/Lykon/DreamShaper">>,
                 <<"CompVis/stable-diffusion-v1-4",
                   "/api/image/CompVis/stable-diffusion-v1-4">>,
                 <<"dreamlike-art/dreamlike-photoreal-2.0",
                   "/api/image/dreamlike-art/dreamlike-photoreal-2.0">>>>]

\* const [firstModel] = Object.keys(MODEL_CONFIG[tool])
getDefaultModel(tool) == MODEL_CONFIG[tool][1][1]

\* MODEL_CONFIG[tool]?.[model], Null standing for undefined
endpointPath(tool, model) ==
    LET table == MODEL_CONFIG[tool]
    IN  IF \E i \in 1..Len(table) : table[i][1] = model
        THEN table[CHOOSE i \in 1..Len(table) : table[i][1] = model][2]
        ELSE Null

\* the bounds on the handleSubmit calls and status queries of a behaviour:
\* queries sent while the network is up, retries sent in an outage that began
\* before the first query, faults sent in a later outage, queries in flight
\* when the interval fires; the stages the server completes a job with and
\* the texts the user types
PollLimits ==
    [submits |-> MaxSubmits, queries |-> MaxQueries, retries |-> MaxRetries,
     faults |-> MaxFaults, inflight |-> MaxInFlight, completions |-> {3}, texts |-> {<<"lesson">>}]

RECURSIVE trimStart(_)
trimStart(text) ==
    IF text # <<>> /\ Head(text) = " " THEN trimStart(Tail(text)) ELSE text

RECURSIVE trimEnd(_)
trimEnd(text) ==
    IF text # <<>> /\ text[Len(text)] = " "
    THEN trimEnd(SubSeq(text, 1, Len(text) - 1))
    ELSE text

\* prompt.trim()
trim(text) == trimEnd(trimStart(text))

EmptyPrompt == "Please enter a prompt before sending."

\* VideoGenerator with a tool chosen, a prompt typed and files attached;
\* filesSet: setAttachedFiles put a new array since the last render
Typed(tool, prompt, files) ==
    [activeTool |-> tool, selectedModel |-> getDefaultModel(tool),
     prompt |-> prompt, attachedFiles |-> files, filesSet |-> FALSE,
     activeJobId |-> Null, activeJobSessionId |-> Null,
     isSubmitting |-> FALSE, globalError |-> Null]

\* the components before anything was submitted
NoPoller ==
    [mounted |-> FALSE, inst |-> 0, jobId |-> Null, sessionId |-> Null,
     isPolling |-> FALSE, failureCount |-> 0]

\* nothing submitted yet: the box as typed, the endpoint answering a POST
\* with reply, the specification's bounds
Idle(box, reply, bounds) ==
    /\ vg = box
    /\ nextVg = vg
    /\ poller = NoPoller
    /\ nextPoller = [isPolling |-> TRUE, failureCount |-> 0]
    /\ lastStatusRef = <<>>
    /\ timer = {}
    /\ inflight = <<>>
    /\ requests = {}
    /\ remote = [j \in PolledIds |-> 0]
    /\ network = "up"
    /\ pending = FALSE
    /\ submits = 0
    /\ posts = 0
    /\ server = reply
    /\ limits = bounds
    /\ queries = 0
    /\ retries = 0
    /\ observed = [j \in PolledIds |-> <<>>]
    /\ consecFails = [j \in PolledIds |-> 0]
    /\ giveUps = [j \in PolledIds |-> 0]
    /\ lateQueries = [j \in PolledIds |-> 0]

PollIdle == Idle(Typed("video", <<"lesson">>, <<>>), "job", PollLimits)

-----------------------------------------------------------------------------
(* The store driven by its callers: each action is one call of a store       *)
(* operation from a closure of the last render; Render is React committing   *)
(* the queued state.                                                         *)

StoredJob ==
    [NewJob("j1", "video", "QUEUED", "Awaiting generation...")
        EXCEPT !.history = <<Entry("QUEUED", "Awaiting generation...")>>]

\* a session as readStorage returns it
StoredSession(id, now, pinned) ==
    Spread(NewSession(id, <<"lesson">>, now),
           [pinned |-> pinned,
            messages |-> <<Message("user", "lesson", Null, Null)>>,
            jobs |-> [k \in {"j1"} |-> StoredJob]])

\* the ids a caller may address: the named ones and the uuids drawn so far
TargetIds == SessionIds \cup {UuidPool[i] : i \in 1..uuidCount}

\* the session objects a caller may hand to createSession
CreateInputs(id, now) ==
    LET full == NewSession(id, <<"fresh">>, now)
    IN  {full,
         [k \in (DOMAIN full) \ {"messages", "jobs"} |-> full[k]]}

Issue(op, id, arg, newNext, newActive, newIdeal) ==
    /\ ops < MaxOps
    /\ ops' = ops + 1
    /\ nextSessions' = newNext
    /\ nextActiveSessionId' = newActive
    /\ ideal' = newIdeal
    /\ last' = [op |-> op, id |-> id, arg |-> arg, pre |-> nextSessions,
                preActive |-> nextActiveSessionId]
    /\ UNCHANGED <<sessions, activeSessionId, appended, normVars, pollVars>>

CreateSession ==
    \E id \in SessionIds : \E s \in CreateInputs(id, clock) :
        /\ Issue("createSession", id, s, createSession(nextSessions, s), id,
                 createSession(ideal, s))
        /\ clock' = clock + 1
        /\ UNCHANGED uuidCount

AppendStatus ==
    \E id \in TargetIds :
        LET line == StatusLine(clock, "Job queued")
        IN  /\ Issue("appendStatus", id, line, appendStatus(nextSessions, id, line),
                     nextActiveSessionId, appendStatus(ideal, id, line))
            /\ UNCHANGED <<uuidCount, clock>>

UpdateSession ==
    \E id \in TargetIds : \E payload \in {[videoUrl |-> "url", jobId |-> "j1"]} :
        /\ Issue("updateSession", id, payload, updateSession(nextSessions, id, payload),
                 nextActiveSessionId, updateSession(ideal, id, payload))
        /\ UNCHANGED <<uuidCount, clock>>

AppendMessage ==
    \E id \in TargetIds :
        LET m == Message("assistant", "reply", "info", Null)
        IN  /\ Issue("appendMessage", id, m, appendMessage(nextSessions, id, m),
                     nextActiveSessionId, appendMessage(ideal, id, m))
            /\ UNCHANGED <<uuidCount, clock>>

RegisterJob ==
    \E id \in TargetIds : \E j \in JobIds :
        LET job == NewJob(j, "image", "QUEUED", "Awaiting image pipeline")
        IN  /\ Issue("registerJob", id, job, registerJob(nextSessions, id, job),
                     nextActiveSessionId, registerJob(ideal, id, job))
            /\ UNCHANGED <<uuidCount, clock>>

UpdateJob ==
    \E id \in TargetIds : \E j \in JobIds :
        LET payload == [status |-> "COMPLETED", videoUrl |-> "url"]
        IN  /\ Issue("updateJob", id, <<j, payload>>,
                     updateJob(nextSessions, id, j, payload),
                     nextActiveSessionId, updateJob(ideal, id, j, payload))
            /\ UNCHANGED <<uuidCount, clock>>

AppendJobStatus ==
    \E id \in TargetIds : \E j \in JobIds :
        /\ Issue("appendJobStatus", id, j,
                 appendJobStatus(nextSessions, id, j, "ANALYZING_SCRIPT", "step"),
                 nextActiveSessionId,
                 appendJobStatus(ideal, id, j, "ANALYZING_SCRIPT", "step"))
        /\ UNCHANGED <<uuidCount, clock>>

DeleteSession ==
    \E id \in TargetIds :
        /\ Issue("deleteSession", id, Null, deleteSession(nextSessions, id),
                 deleteSessionActive(nextActiveSessionId, id), deleteSession(ideal, id))
        /\ UNCHANGED <<uuidCount, clock>>

TogglePinSession ==
    \E id \in TargetIds :
        /\ Issue("togglePinSession", id, Null, togglePinSession(nextSessions, id),
                 nextActiveSessionId, togglePinSession(ideal, id))
        /\ UNCHANGED <<uuidCount, clock>>

\* the uuid and the timestamp are drawn only once the source is found
DuplicateSession ==
    \E id \in TargetIds :
        LET uuid == UuidPool[uuidCount + 1]
            found == findIndex(sessions, id) # 0
        IN  /\ uuidCount < MaxUuid
            /\ Issue("duplicateSession", id, uuid,
                     duplicateSession(sessions, nextSessions, id, uuid, clock),
                     IF found THEN uuid ELSE nextActiveSessionId,
                     duplicateSessionFromLatest(ideal, ideal, id, uuid, clock))
            /\ uuidCount' = IF found THEN uuidCount + 1 ELSE uuidCount
            /\ clock' = IF found THEN clock + 1 ELSE clock

SetActiveSession ==
    \E id \in TargetIds \cup {Null} :
        /\ Issue("setActiveSession", id, Null, nextSessions, id, ideal)
        /\ UNCHANGED <<uuidCount, clock>>

\* React commits the queued state; the next closures read it
Render ==
    /\ <<nextSessions, nextActiveSessionId>> # <<sessions, activeSessionId>>
    /\ sessions' = nextSessions
    /\ activeSessionId' = nextActiveSessionId
    /\ UNCHANGED <<nextSessions, nextActiveSessionId, uuidCount, clock, ops, ideal,
                   appended, last, normVars, pollVars>>

InitStore ==
    /\ sessions \in {<<>>, <<StoredSession("s1", 1, TRUE)>>,
                      <<StoredSession("s2", 2, FALSE), StoredSession("s1", 1, TRUE)>>}
    /\ activeSessionId \in {Null, "s1"}
    /\ nextSessions = sessions
    /\ nextActiveSessionId = activeSessionId
    /\ uuidCount = 0
    /\ clock = 3
    /\ ops = 0
    /\ ideal = sessions
    /\ appended = <<>>
    /\ last = [op |-> "init", id |-> Null, arg |-> Null, pre |-> sessions,
               preActive |-> activeSessionId]
    /\ NormIdle
    /\ PollIdle

NextStore ==
    \/ CreateSession
    \/ AppendStatus
    \/ UpdateSession
    \/ AppendMessage
    \/ RegisterJob
    \/ UpdateJob
    \/ AppendJobStatus
    \/ DeleteSession
    \/ TogglePinSession
    \/ DuplicateSession
    \/ SetActiveSession
    \/ Render

SpecStore == InitStore /\ [][NextStore]_vars

-----------------------------------------------------------------------------
(* The status log of one session under appendStatus: the session starts with *)
(* a stored log of any length up to the cap, and callers append lines.       *)

LogTexts == {"QUEUED", "RETRYING"}

StoredLog(k) == [i \in 1..k |-> StatusLine(i, "stored")]

LogAppend ==
    \E text \in LogTexts :
        LET line == StatusLine(clock, text)
        IN  /\ ops < MaxAppends
            /\ ops' = ops + 1
            /\ clock' = clock + 1
            /\ nextSessions' = appendStatus(nextSessions, "s1", line)
            /\ appended' = Append(appended, line)
            /\ last' = [op |-> "appendStatus", id |-> "s1", arg |-> line,
                        pre |-> nextSessions, preActive |-> nextActiveSessionId]
            /\ UNCHANGED <<sessions, activeSessionId, nextActiveSessionId, uuidCount,
                           ideal, normVars, pollVars>>

InitLog ==
    /\ \E k \in 0..StatusCap :
          /\ sessions = <<[StoredSession("s1", 0, FALSE)
                             EXCEPT !.statusHistory = StoredLog(k)]>>
          /\ appended = StoredLog(k)
          /\ clock = k + 1
    /\ activeSessionId = "s1"
    /\ nextSessions = sessions
    /\ nextActiveSessionId = activeSessionId
    /\ uuidCount = 0
    /\ ops = 0
    /\ ideal = sessions
    /\ last = [op |-> "init", id |-> Null, arg |-> Null, pre |-> sessions,
               preActive |-> activeSessionId]
    /\ NormIdle
    /\ PollIdle

NextLog ==
    \/ LogAppend
    \/ Render

SpecLog == InitLog /\ [][NextLog]_vars

-----------------------------------------------------------------------------
(* JavaScript values, for the code that inspects what JSON.parse returned:   *)
(* a value carries its type tag; an object is a record of its own keys, and  *)
(* an object used as a map (jobs) is the sequence of its entries, in         *)
(* insertion order.                                                          *)

Undef == [t |-> "undef"]

NullV == [t |-> "null"]

Str(s) == [t |-> "str", v |-> s]

Num(n) == [t |-> "num", v |-> n]

Bool(b) == [t |-> "bool", v |-> b]

Arr(s) == [t |-> "arr", v |-> s]

Obj(r) == [t |-> "obj", v |-> r]

Dict(e) == [t |-> "obj", e |-> e]

IsString(x) == x.t = "str"

IsNumber(x) == x.t = "num"

IsArray(x) == x.t = "arr"

Nullish(x) == x.t \in {"undef", "null"}

\* x && typeof x === "object"
IsObjectLike(x) == x.t \in {"obj", "arr"}

\* k in x, for an object-like x
HasKey(x, k) == x.t = "obj" /\ "v" \in DOMAIN x /\ k \in DOMAIN x.v

\* x.k
Get(x, k) == IF HasKey(x, k) THEN x.v[k] ELSE Undef

Digits == <<"0", "1", "2", "3", "4", "5", "6", "7", "8", "9">>

\* String(x), for the values ids take here
ToStr(x) ==
    CASE x.t = "str" -> x.v
      [] x.t = "num" -> Digits[x.v + 1]
      [] x.t = "bool" -> IF x.v THEN "true" ELSE "false"
      [] x.t = "arr" -> ""
      [] x.t = "null" -> "null"
      [] x.t = "undef" -> "undefined"
      [] OTHER -> "[object Object]"

\* Number(x), mapped to 0 where it is not finite
FiniteNumber(x) ==
    CASE x.t = "num" -> x.v
      [] x.t = "bool" -> IF x.v THEN 1 ELSE 0
      [] x.t = "str" /\ (\E d \in 1..10 : Digits[d] = x.v) ->
            (CHOOSE d \in 1..10 : Digits[d] = x.v) - 1
      [] OTHER -> 0

\* array.filter(x => typeof x === "string")
RECURSIVE OnlyStrings(_)
OnlyStrings(s) ==
    IF s = <<>> THEN <<>>
    ELSE (IF IsString(Head(s)) THEN <<Head(s)>> ELSE <<>>) \o OnlyStrings(Tail(s))

\* JSON.parse(JSON.stringify(x)): keys holding undefined are dropped, undefined
\* inside an array becomes null (numbers here are finite)
RECURSIVE ToJson(_)
ToJson(x) ==
    CASE x.t = "arr" ->
            Arr([i \in 1..Len(x.v) |->
                    IF x.v[i].t = "undef" THEN NullV ELSE ToJson(x.v[i])])
      [] x.t = "obj" /\ "v" \in DOMAIN x ->
            Obj([k \in {k \in DOMAIN x.v : x.v[k].t # "undef"} |-> ToJson(x.v[k])])
      [] x.t = "obj" /\ "e" \in DOMAIN x ->
            Dict(LET keep == SelectSeq(x.e, LAMBDA kv : kv[2].t # "undef")
                 IN  [i \in 1..Len(keep) |-> <<keep[i][1], ToJson(keep[i][2])>>])
      [] OTHER -> x

-----------------------------------------------------------------------------
(* Normalization on load *)

RECURSIVE attachmentList(_)
attachmentList(s) ==
    IF s = <<>> THEN <<>>
    ELSE LET a == Head(s)
         IN  (IF IsObjectLike(a) /\ HasKey(a, "name") /\ IsString(Get(a, "name"))
              THEN <<Obj([name |-> Get(a, "name"),
                          size |-> Num(FiniteNumber(Get(a, "size")))])>>
              ELSE <<>>) \o attachmentList(Tail(s))

normalizeAttachments(attachments) ==
    IF ~IsArray(attachments) THEN Arr(<<>>) ELSE Arr(attachmentList(attachments.v))

\* the id and timestamp a record gets when it has none
idOrUuid(payload, uuid) ==
    IF IsString(Get(payload, "id")) THEN Get(payload, "id") ELSE Str(uuid)

numberOrNowAlwaysNow(value, now) == Num(now)

numberOrNow(value, now) == IF IsNumber(value) THEN value ELSE Num(now)

stringOr(value, default) == IF IsString(value) THEN value ELSE default

stringsOrUndefined(value) ==
    IF IsArray(value) THEN Arr(OnlyStrings(value.v)) ELSE Undef

\* NullV stands for the null that filter(Boolean) drops
normalizeMessage(message, now, uuid) ==
    IF ~IsObjectLike(message) THEN NullV
    ELSE Obj([id |-> idOrUuid(message, uuid),
              role |-> IF IsString(Get(message, "role"))
                          /\ Get(message, "role").v = "assistant"
                       THEN Str("assistant") ELSE Str("user"),
              content |-> stringOr(Get(message, "content"), Str("")),
              tool |-> IF Nullish(Get(message, "tool")) THEN Undef
                       ELSE Get(message, "tool"),
              model |-> stringOr(Get(message, "model"), Undef),
              attachments |-> normalizeAttachments(Get(message, "attachments")),
              status |-> IF IsString(Get(message, "status"))
                            /\ Get(message, "status").v \in {"success", "error", "info"}
                         THEN Get(message, "status") ELSE Undef,
              timestamp |-> numberOrNow(Get(message, "timestamp"), now),
              videoUrl |-> stringOr(Get(message, "videoUrl"), Undef),
              imageUrls |-> stringsOrUndefined(Get(message, "imageUrls")),
              data |-> Get(message, "data"),
              jobId |-> stringOr(Get(message, "jobId"), Undef)])

\* rawMessages.map(normalizeMessage).filter(Boolean); the n-th message draws uuids[n]
RECURSIVE messageList(_, _, _)
messageList(s, now, uuids) ==
    IF s = <<>> THEN <<>>
    ELSE LET m == normalizeMessage(Head(s), now, Head(uuids))
         IN  (IF m.t = "null" THEN <<>> ELSE <<m>>)
                 \o messageList(Tail(s), now, Tail(uuids))

RECURSIVE historyList(_, _)
historyList(s, now) ==
    IF s = <<>> THEN <<>>
    ELSE LET entry == Head(s)
         IN  (IF ~IsObjectLike(entry) THEN <<>>
              ELSE <<Obj([status |-> stringOr(Get(entry, "status"), Str("QUEUED")),
                          progress |-> stringOr(Get(entry, "progress"), Undef),
                          timestamp |-> numberOrNow(Get(entry, "timestamp"), now)])>>)
                 \o historyList(Tail(s), now)

normalizeJobHistory(history, now) ==
    IF ~IsArray(history) THEN Arr(<<>>) ELSE Arr(historyList(history.v, now))

\* the [jobId, jobValue] pairs normalizeJobs reduces over
RECURSIVE arrayEntries(_)
arrayEntries(s) ==
    IF s = <<>> THEN <<>>
    ELSE (IF IsObjectLike(Head(s)) /\ HasKey(Head(s), "id")
          THEN <<<<Get(Head(s), "id"), Head(s)>>>> ELSE <<>>)
             \o arrayEntries(Tail(s))

jobEntries(jobs) ==
    IF IsArray(jobs) THEN arrayEntries(jobs.v)
    ELSE IF "e" \in DOMAIN jobs
         THEN [i \in 1..Len(jobs.e) |-> <<Str(jobs.e[i][1]), jobs.e[i][2]>>]
         ELSE <<>>

\* acc[id] = job: an existing key keeps its place, a new key goes last
Put(acc, id, job) ==
    IF \E i \in 1..Len(acc) : acc[i][1] = id
    THEN [i \in 1..Len(acc) |-> IF acc[i][1] = id THEN <<id, job>> ELSE acc[i]]
    ELSE Append(acc, <<id, job>>)

\* one step of the reduce: the key and the job stored under it
normalizeJob(jobId, payload, now) ==
    LET id == IF IsString(Get(payload, "id")) THEN Get(payload, "id").v
              ELSE ToStr(jobId)
    IN  <<id, Obj([id |-> Str(id),
                   tool |-> IF Nullish(Get(payload, "tool")) THEN Str("video")
                            ELSE Get(payload, "tool"),
                   model |-> stringOr(Get(payload, "model"), Str("aws-nova-reel")),
                   createdAt |-> numberOrNow(Get(payload, "createdAt"), now),
                   status |-> stringOr(Get(payload, "status"), Str("QUEUED")),
                   progress |-> stringOr(Get(payload, "progress"), Undef),
                   history |-> normalizeJobHistory(Get(payload, "history"), now),
                   videoUrl |-> stringOr(Get(payload, "videoUrl"), Undef),
                   imageUrls |-> stringsOrUndefined(Get(payload, "imageUrls"))])>>

RECURSIVE reduceJobs(_, _, _)
reduceJobs(acc, entries, now) ==
    IF entries = <<>> THEN acc
    ELSE LET jobValue == Head(entries)[2]
             kv == normalizeJob(Head(entries)[1], jobValue, now)
         IN  reduceJobs(IF ~IsObjectLike(jobValue) THEN acc
                        ELSE Put(acc, kv[1], kv[2]),
                        Tail(entries), now)

normalizeJobs(jobs, now) ==
    IF ~IsObjectLike(jobs) THEN Dict(<<>>)
    ELSE Dict(reduceJobs(<<>>, jobEntries(jobs), now))

\* uuids[1] is the session's own draw, the rest are its messages'
normalizeSession(session, now, uuids) ==
    LET rawMessages == IF IsArray(Get(session, "messages"))
                       THEN Get(session, "messages").v ELSE <<>>
    IN  Obj([id |-> IF Nullish(Get(session, "id")) THEN Str(Head(uuids))
                    ELSE Str(ToStr(Get(session, "id"))),
             prompt |-> stringOr(Get(session, "prompt"),
                                 stringOr(Get(session, "script"), Str(""))),
             tool |-> IF Nullish(Get(session, "tool")) THEN Str("video")
                      ELSE Get(session, "tool"),
             model |-> stringOr(Get(session, "model"),
                                stringOr(Get(session, "style"), Str("aws-nova-reel"))),
             createdAt |-> numberOrNow(Get(session, "createdAt"), now),
             videoUrl |-> stringOr(Get(session, "videoUrl"), NullV),
             statusHistory |-> IF IsArray(Get(session, "statusHistory"))
                               THEN Get(session, "statusHistory") ELSE Arr(<<>>),
             attachments |-> IF IsArray(Get(session, "attachments"))
                             THEN Get(session, "attachments") ELSE Arr(<<>>),
             messages |-> Arr(messageList(rawMessages, now, Tail(uuids))),
             jobId |-> stringOr(Get(session, "jobId"), NullV),
             jobs |-> normalizeJobs(Get(session, "jobs"), now),
             pinned |-> IF Get(session, "pinned").t = "bool"
                        THEN Get(session, "pinned") ELSE Bool(FALSE)])

\* list.sort((a, b) => b.createdAt - a.createdAt): stable, newest first
RECURSIVE InsertNewestFirst(_, _)
InsertNewestFirst(x, sorted) ==
    IF sorted = <<>> THEN <<x>>
    ELSE IF Head(sorted).v.createdAt.v <= x.v.createdAt.v THEN <<x>> \o sorted
    ELSE <<Head(sorted)>> \o InsertNewestFirst(x, Tail(sorted))

RECURSIVE SortNewestFirst(_)
SortNewestFirst(s) ==
    IF s = <<>> THEN <<>>
    ELSE InsertNewestFirst(Head(s), SortNewestFirst(Tail(s)))

\* what localStorage.getItem / JSON.parse give besides a JSON value
Absent == [t |-> "absent"]

Unparseable == [t |-> "unparseable"]

\* the uuids the i-th record of the given load may draw
Fresh(load, i) == [j \in 1..5 |-> UuidPool[(load - 1) * 16 + (i - 1) * 5 + j]]

\* the exception the try block of readStorage raises: JSON.parse on text that
\* is not JSON, parsed.map on a value that is no array, session.messages on a
\* null element ("none": the block runs to its return)
thrownBy(raw) ==
    IF raw.t = "absent" THEN "none"
    ELSE IF raw.t = "unparseable" THEN "SyntaxError"
    ELSE IF ~IsArray(raw) THEN "TypeError"
    ELSE IF \E i \in 1..Len(raw.v) : Nullish(raw.v[i]) THEN "TypeError"
    ELSE "none"

catchesSyntaxErrorOnly(error) == error = "SyntaxError"

\* catch (error) { console.warn(...); return [] }: whatever was thrown
catches(error) == TRUE

readStorage(raw, now, load) ==
    IF thrownBy(raw) # "none" THEN <<>>
    ELSE IF raw.t = "absent" THEN <<>>
    ELSE SortNewestFirst([i \in 1..Len(raw.v) |->
                             normalizeSession(raw.v[i], now, Fresh(load, i))])

-----------------------------------------------------------------------------
(* Page loads: the provider reads the stored collection, and the effect on   *)
(* [sessions] writes the state back after the first render.                  *)

BaseMessage ==
    Obj([id |-> Str("m1"), role |-> Str("assistant"), content |-> Str("hi"),
         attachments |-> Arr(<<Obj([name |-> Str("f"), size |-> Num(3)])>>),
         status |-> Str("info"), timestamp |-> Num(2), jobId |-> Str("j1")])

BaseJob ==
    Obj([id |-> Str("j1"), tool |-> Str("video"), model |-> Str("m"),
         createdAt |-> Num(2), status |-> Str("QUEUED"), progress |-> Str("p"),
         history |-> Arr(<<Obj([status |-> Str("QUEUED"), progress |-> Str("p"),
                                timestamp |-> Num(2)])>>)])

\* a record as the effect wrote it
BaseRecord(id, at) ==
    [id |-> Str(id), prompt |-> Str("lesson"), tool |-> Str("video"),
     model |-> Str("m"), createdAt |-> Num(at), videoUrl |-> NullV,
     statusHistory |-> Arr(<<Str("line")>>), attachments |-> Arr(<<Str("f")>>),
     messages |-> Arr(<<BaseMessage>>), jobId |-> Str("j1"),
     jobs |-> Dict(<<<<"j1", BaseJob>>>>), pinned |-> Bool(TRUE)]

OddMessages ==
    Arr(<<NullV, Str("m"), Obj([content |-> Num(1)]),
          Obj([id |-> Str("m2"), role |-> Str("system"), status |-> Str("weird"),
               tool |-> NullV, imageUrls |-> Arr(<<Str("i"), Num(1)>>),
               data |-> Obj([x |-> Num(1)]),
               attachments |-> Arr(<<Obj([name |-> Str("g"), size |-> Str("4")]),
                                     Obj([size |-> Num(1)]), NullV>>)])>>)

OddJobsArray ==
    Arr(<<BaseJob, NullV, Obj([status |-> Str("FAILED")]), Obj([id |-> Num(4)])>>)

OddJobsMap ==
    Dict(<<<<"k1", Obj([id |-> Str("j2"), history |-> Arr(<<NullV, Obj(<<>>)>>)])>>,
           <<"j2", Obj([progress |-> Num(1), imageUrls |-> Str("i")])>>,
           <<"k3", Str("x")>>,
           <<"k4", Arr(<<>>)>>>>)

\* the other values a stored field may hold (Absent: the key is missing)
Alternatives ==
    [id |-> <<Absent, Num(7), NullV>>,
     prompt |-> <<Absent, Num(1)>>,
     script |-> <<Str("old script")>>,
     tool |-> <<Absent, NullV, Num(3)>>,
     model |-> <<Absent>>,
     style |-> <<Str("cinematic")>>,
     createdAt |-> <<Absent, Str("5")>>,
     videoUrl |-> <<Str("url"), Num(0), Absent>>,
     statusHistory |-> <<Absent, Str("x"), Arr(<<Num(1), NullV>>)>>,
     attachments |-> <<Absent>>,
     messages |-> <<Absent, Str("nope"), OddMessages>>,
     jobId |-> <<NullV, Num(1), Absent>>,
     jobs |-> <<Absent, Str("x"), OddJobsArray, OddJobsMap>>,
     pinned |-> <<Absent, Str("yes"), Bool(FALSE)>>,
     junk |-> <<Str("junk")>>]

\* record r with field f holding its a-th alternative
Damaged(r, f, a) ==
    LET value == Alternatives[f][a]
    IN  IF value.t = "absent" THEN [k \in (DOMAIN r) \ {f} |-> r[k]]
        ELSE [k \in (DOMAIN r) \cup {f} |-> IF k = f THEN value ELSE r[k]]

\* the records that differ from a well-formed one in at most n fields
RECURSIVE RawRecords(_)
RawRecords(n) ==
    IF n = 0 THEN {BaseRecord("s1", 5)}
    ELSE RawRecords(n - 1) \cup
         {Damaged(r, f, a) : r \in RawRecords(n - 1),
                             <<f, a>> \in UNION {{f} \X (1..Len(Alternatives[f]))
                                                   : f \in DOMAIN Alternatives}}

\* what localStorage may hold at the first page load
StoredValues ==
    {Absent, Unparseable, Obj(BaseRecord("s1", 5)),
     Arr(<<Obj(BaseRecord("s1", 5)), NullV>>), Arr(<<Obj(BaseRecord("s1", 5)), Str("x")>>)}
    \cup {Arr(<<Obj(r)>>) : r \in RawRecords(MaxDamaged)}
    \cup {Arr(<<Obj(r), Obj(BaseRecord("s2", 6))>>) : r \in RawRecords(MaxDamaged)}

InitialClock == 8

\* the provider is constructed: useState(() => readStorage())
LoadStorage ==
    /\ loads < MaxLoads
    /\ loads > 0 => persisted
    /\ loaded' = readStorage(stored, clock, loads + 1)
    /\ crashed' = (crashed \/ (thrownBy(stored) # "none" /\ ~catches(thrownBy(stored))))
    /\ prevLoaded' = loaded
    /\ loads' = loads + 1
    /\ clock' = clock + 1
    /\ persisted' = FALSE
    /\ UNCHANGED <<stored, storedActive, storeVars, pollVars>>

\* localStorage.setItem(STORAGE_KEY, JSON.stringify(sessions))
PersistEffect ==
    /\ loads > 0
    /\ ~persisted
    /\ stored' = ToJson(Arr(loaded))
    /\ persisted' = TRUE
    /\ UNCHANGED <<loaded, prevLoaded, loads, crashed, storedActive, clock, storeVars,
                   pollVars>>

InitNorm ==
    /\ stored \in StoredValues
    /\ loaded = <<>>
    /\ prevLoaded = <<>>
    /\ loads = 0
    /\ persisted = FALSE
    /\ crashed = FALSE
    /\ storedActive = Null
    /\ clock = InitialClock
    /\ sessions = <<>>
    /\ activeSessionId = Null
    /\ nextSessions = <<>>
    /\ nextActiveSessionId = Null
    /\ uuidCount = 0
    /\ ops = 0
    /\ ideal = <<>>
    /\ appended = <<>>
    /\ last = [op |-> "init"]
    /\ PollIdle

NextNorm ==
    \/ LoadStorage
    \/ PersistEffect

SpecNorm == InitNorm /\ [][NextNorm]_vars

-----------------------------------------------------------------------------
(* The provider from construction on: the state starts as what readStorage   *)
(* and localStorage.getItem(ACTIVE_KEY) return, the operations of the store  *)
(* act on it, and the two effects write it back after every render that      *)
(* changed their dependency.                                                 *)

\* a JSON value as the records of the store hold it
RECURSIVE FromJs(_)
FromJs(x) ==
    CASE x.t \in {"str", "num", "bool"} -> x.v
      [] x.t \in {"null", "undef"} -> Null
      [] x.t = "arr" -> [i \in 1..Len(x.v) |-> FromJs(x.v[i])]
      [] x.t = "obj" /\ "v" \in DOMAIN x -> [k \in DOMAIN x.v |-> FromJs(x.v[k])]
      [] OTHER ->
            [k \in {x.e[i][1] : i \in 1..Len(x.e)} |->
                FromJs(x.e[CHOOSE i \in 1..Len(x.e) : x.e[i][1] = k][2])]

\* an optional string field: undefined when unset
Optional(x) == IF x = Null THEN Undef ELSE Str(x)

\* a string | null field
Nullable(x) == IF x = Null THEN NullV ELSE Str(x)

Strings(s) == Arr([i \in 1..Len(s) |-> Str(s[i])])

\* JobStatusEntry
EntryToJs(e) ==
    Obj([k \in DOMAIN e |->
            CASE k = "status" -> Str(e[k])
              [] k = "timestamp" -> Num(e[k])
              [] OTHER -> Optional(e[k])])

\* SessionJob
JobToJs(j) ==
    Obj([k \in DOMAIN j |->
            CASE k \in {"id", "tool", "model", "status"} -> Str(j[k])
              [] k = "createdAt" -> Num(j[k])
              [] k = "history" -> Arr([i \in 1..Len(j[k]) |-> EntryToJs(j[k][i])])
              [] OTHER -> Optional(j[k])])

\* ChatMessage
MessageToJs(msg) ==
    Obj([k \in DOMAIN msg |->
            CASE k \in {"id", "role", "content"} -> Str(msg[k])
              [] k = "timestamp" -> Num(msg[k])
              [] k = "attachments" ->
                    Arr([i \in 1..Len(msg[k]) |->
                            Obj([name |-> Str(msg[k][i].name),
                                 size |-> Num(msg[k][i].size)])])
              [] OTHER -> Optional(msg[k])])

\* the keys of a jobs mapping, in one fixed order
RECURSIVE KeyOrder(_)
KeyOrder(keys) ==
    IF keys = {} THEN <<>>
    ELSE LET k == CHOOSE k \in keys : TRUE IN <<k>> \o KeyOrder(keys \ {k})

\* ChatSession
SessionToJs(session) ==
    Obj([k \in DOMAIN session |->
            CASE k \in {"id", "prompt", "tool", "model"} -> Str(session[k])
              [] k = "createdAt" -> Num(session[k])
              [] k \in {"videoUrl", "jobId"} -> Nullable(session[k])
              [] k \in {"statusHistory", "attachments"} -> Strings(session[k])
              [] k = "messages" ->
                    Arr([i \in 1..Len(session[k]) |-> MessageToJs(session[k][i])])
              [] k = "jobs" ->
                    Dict(LET order == KeyOrder(DOMAIN session[k])
                         IN  [i \in 1..Len(order) |->
                                 <<order[i], JobToJs(session[k][order[i]])>>])
              [] OTHER -> Bool(session[k])])

\* JSON.stringify(sessions), as JSON.parse reads it back
Serialized(list) == ToJson(Arr([i \in 1..Len(list) |-> SessionToJs(list[i])]))

activeRecordNeverRemoved(record, pointer) ==
    IF pointer # Null /\ pointer # "" THEN pointer ELSE record

\* if (activeSessionId) setItem(ACTIVE_KEY, activeSessionId) else removeItem(ACTIVE_KEY)
activeRecord(record, pointer) ==
    IF pointer # Null /\ pointer # "" THEN pointer ELSE Null

\* what localStorage may hold when the page is opened
ProviderStoredValues ==
    {Absent, Unparseable,
     Arr(<<Obj(Damaged(BaseRecord("s1", 5), "jobs", 3))>>),
     Arr(<<Obj(Damaged(BaseRecord("s1", 5), "jobs", 4)), Obj(BaseRecord("s2", 6))>>),
     Arr(<<Obj(Damaged(Damaged(BaseRecord("s1", 5), "id", 2), "jobs", 1))>>)}

\* a render commits the queued state; then the effect on [sessions] and the
\* effect on [activeSessionId] run, each when its dependency changed (and both
\* after the first render)
RenderProvider ==
    /\ ~persisted \/ <<nextSessions, nextActiveSessionId>> # <<sessions, activeSessionId>>
    /\ sessions' = nextSessions
    /\ activeSessionId' = nextActiveSessionId
    /\ stored' = IF ~persisted \/ nextSessions # sessions
                 THEN Serialized(nextSessions) ELSE stored
    /\ storedActive' = IF ~persisted \/ nextActiveSessionId # activeSessionId
                       THEN activeRecord(storedActive, nextActiveSessionId)
                       ELSE storedActive
    /\ persisted' = TRUE
    /\ UNCHANGED <<nextSessions, nextActiveSessionId, uuidCount, clock, ops, ideal,
                   appended, last, loaded, prevLoaded, loads, crashed, pollVars>>

\* useState(() => readStorage()) and useState(() => localStorage.getItem(ACTIVE_KEY))
InitProvider ==
    /\ stored \in ProviderStoredValues
    /\ storedActive \in {Null, "s1"}
    /\ loaded = readStorage(stored, InitialClock, 1)
    /\ crashed = (thrownBy(stored) # "none" /\ ~catches(thrownBy(stored)))
    /\ prevLoaded = <<>>
    /\ loads = 1
    /\ persisted = FALSE
    /\ clock = InitialClock + 1
    /\ sessions = FromJs(Arr(loaded))
    /\ activeSessionId = storedActive
    /\ nextSessions = sessions
    /\ nextActiveSessionId = activeSessionId
    /\ uuidCount = 0
    /\ ops = 0
    /\ ideal = sessions
    /\ appended = <<>>
    /\ last = [op |-> "init", id |-> Null, arg |-> Null, pre |-> sessions,
               preActive |-> activeSessionId]
    /\ PollIdle

NextProvider ==
    \/ RenderProvider
    \/ CreateSession
    \/ AppendStatus
    \/ UpdateSession
    \/ AppendMessage
    \/ RegisterJob
    \/ UpdateJob
    \/ AppendJobStatus
    \/ DeleteSession
    \/ TogglePinSession
    \/ DuplicateSession
    \/ SetActiveSession

SpecProvider == InitProvider /\ [][NextProvider]_vars

-----------------------------------------------------------------------------
(* Submission and status polling: VideoGenerator.handleSubmit, the           *)
(* StatusPolling component it renders while a job is active, and the         *)
(* handlers it passes.  Every handler                                        *)
(* changes the store, so VideoGenerator renders again and hands              *)
(* StatusPolling new onSuccess/onError functions: the polling effect is      *)
(* cleaned up and run again at every render.                                 *)

\* the job ids the server hands out, by submission
JobPool == <<"j1", "j2">>

\* what GET /status/{jobId} returns at each stage of a job: queued, at work,
\* completed with a video, failed, completed with images, completed with
\* neither
Stages ==
    <<[status |-> "QUEUED", progress |-> "Waiting for a worker",
       video_url |-> Null, image_urls |-> Null],
      [status |-> "ANALYZING_SCRIPT", progress |-> "Analyzing",
       video_url |-> Null, image_urls |-> Null],
      [status |-> "COMPLETED", progress |-> "Done",
       video_url |-> "url", image_urls |-> Null],
      [status |-> "FAILED", progress |-> "Render failed",
       video_url |-> Null, image_urls |-> Null],
      [status |-> "COMPLETED", progress |-> "Done",
       video_url |-> Null, image_urls |-> <<"image-url">>],
      [status |-> "COMPLETED", progress |-> "Done",
       video_url |-> Null, image_urls |-> Null]>>

\* the stages a job ends in
Terminal == {k \in 1..Len(Stages) : Stages[k].status \in {"COMPLETED", "FAILED"}}

\* the store calls of handleJobSuccess: for a payload with a video_url, for
\* one with image_urls, and none for a payload with neither
handleJobSuccess(prev, sessionId, jobId, payload) ==
    IF payload.video_url # Null
    THEN appendMessage(
             appendJobStatus(
                 updateJob(prev, sessionId, jobId,
                           [status |-> "COMPLETED", progress |-> payload.progress,
                            videoUrl |-> payload.video_url]),
                 sessionId, jobId, "COMPLETED", payload.progress),
             sessionId, Message("assistant", "Your video is ready!", "success", jobId))
    ELSE IF payload.image_urls # Null
    THEN appendMessage(
             appendJobStatus(
                 updateJob(prev, sessionId, jobId,
                           [status |-> "COMPLETED", progress |-> payload.progress,
                            imageUrls |-> payload.image_urls]),
                 sessionId, jobId, "COMPLETED", payload.progress),
             sessionId, Message("assistant", "Generated 1 image.", "success", jobId))
    ELSE prev

\* the store calls of handleJobError
handleJobError(prev, sessionId, jobId, message) ==
    appendMessage(
        appendJobStatus(
            updateJob(prev, sessionId, jobId, [status |-> "FAILED", progress |-> message]),
            sessionId, jobId, "FAILED", message),
        sessionId, Message("assistant", message, "error", jobId))

\* the store calls of pollStatus after a response that was ok; ref is
\* lastStatusRef.current
pollStatusOk(prev, sessionId, jobId, data, ref, now) ==
    LET recorded == updateJob(
                        appendJobStatus(prev, sessionId, jobId, data.status, data.progress),
                        sessionId, jobId,
                        [status |-> data.status, progress |-> data.progress])
        logged == IF <<data.status, data.progress>> # ref
                  THEN appendStatus(recorded, sessionId, StatusLine(now, data.status))
                  ELSE recorded
        video == IF data.video_url = Null THEN logged
                 ELSE updateJob(
                          updateSession(logged, sessionId, [videoUrl |-> data.video_url]),
                          sessionId, jobId,
                          [videoUrl |-> data.video_url, status |-> data.status,
                           progress |-> data.progress])
        images == IF data.image_urls = Null THEN video
                  ELSE updateJob(video, sessionId, jobId,
                                 [imageUrls |-> data.image_urls, status |-> data.status,
                                  progress |-> data.progress])
    IN  IF data.status = "COMPLETED"
        THEN handleJobSuccess(images, sessionId, jobId, data)
        ELSE IF data.status = "FAILED"
        THEN appendStatus(
                 handleJobError(
                     updateJob(logged, sessionId, jobId,
                               [status |-> "FAILED", progress |-> data.progress]),
                     sessionId, jobId, data.progress),
                 sessionId, StatusLine(now, "FAILED"))
        ELSE logged

ConnectionLost == "Connection lost. Please try again."

\* the store calls of pollStatus's catch
pollStatusCatch(prev, sessionId, jobId, nextFailures, now) ==
    LET retried == appendJobStatus(
                       appendStatus(prev, sessionId, StatusLine(now, "RETRYING")),
                       sessionId, jobId, "RETRYING", "Failed to fetch status")
    IN  IF nextFailures > GiveUpAfter
        THEN handleJobError(retried, sessionId, jobId, ConnectionLost)
        ELSE retried

\* fetch(API_ENDPOINTS.status(jobId)) from a pollStatus closure; the response
\* is decided when the query is sent (0: network error, or the non-OK
\* response for an id the server has no job under)
NewQuery(closure) ==
    [inst |-> closure.inst, jobId |-> closure.jobId,
     sessionId |-> closure.sessionId, failureCount |-> closure.failureCount,
     reply |-> IF network = "down" THEN 0 ELSE remote[closure.jobId]]

\* the bound on the queries the model sends
CanQuery ==
    IF network = "up" THEN queries < limits.queries
    ELSE retries < (IF queries = 0 THEN limits.retries ELSE limits.faults)

\* the bodies the endpoint may answer a POST with: a job id, a finished
\* result without one, { job_id: null }, text that is not JSON, and the two
\* kinds of non-OK response (with and without a detail)
ReplyKinds ==
    {"job", "result", "nullJobId", "badBody", "httpError", "httpErrorNoBody"}

NotConfigured == "Model is not configured for this tool."

NoVideoJobId == "Video tool did not return a job id. Please try another model."

sendsRequestAlways(tool, model) == TRUE

\* submitToolRequest up to its fetch: if (!endpointPath) throw new Error(...)
sendsRequest(tool, model) == endpointPath(tool, model) # Null

\* what the promise of submitToolRequest settles to: the message of the Error
\* thrown, or the job id (Null: none) and data of the response
submitToolRequest(sent, net, reply, n) ==
    IF ~sent THEN [threw |-> TRUE, message |-> NotConfigured]
    ELSE IF net = "down" THEN [threw |-> TRUE, message |-> "Failed to submit"]
    ELSE IF reply = "httpError" THEN [threw |-> TRUE, message |-> "detail"]
    ELSE IF reply = "httpErrorNoBody" THEN [threw |-> TRUE, message |-> "Request failed"]
    ELSE [threw |-> FALSE,
          jobId |-> IF reply = "job" THEN JobPool[n]
                    ELSE IF reply = "nullJobId" THEN NullText
                    ELSE Null,
          data |-> reply]

\* extractImageUrls(response.data)
extractImageUrls(data) == IF data = "result" THEN <<"image-url">> ELSE <<>>

\* the message handleSubmit's try block ends in the catch with, Null when it
\* runs to its end
caught(tool, response) ==
    IF response.threw THEN response.message
    ELSE IF tool = "video" /\ response.jobId = Null THEN NoVideoJobId
    ELSE Null

\* the store calls of the try block for a response that carries a job id
jobQueued(prev, sessionId, tool, jobId, now) ==
    LET progress == IF tool = "video" THEN "Awaiting generation..."
                    ELSE "Awaiting image pipeline"
        job == NewJob(jobId, IF tool = "video" THEN "video" ELSE "image",
                      "QUEUED", progress)
    IN  appendMessage(
            updateSession(
                appendStatus(
                    appendJobStatus(registerJob(prev, sessionId, job),
                                    sessionId, jobId, "QUEUED", progress),
                    sessionId, StatusLine(now, "Job queued")),
                sessionId, [jobId |-> jobId]),
            sessionId,
            Message("assistant", "I will share status updates here.", "info", jobId))

\* the store calls of the try block for a response of another tool than
\* video that carries no job id; imageJobId is createId()
resultReceived(prev, sessionId, imageJobId, data, now) ==
    LET imageUrls == extractImageUrls(data)
        job == NewJob(imageJobId, "image", "COMPLETED", "Response received")
    IN  appendMessage(
            appendStatus(
                updateJob(registerJob(prev, sessionId, job), sessionId, imageJobId,
                          [status |-> "COMPLETED",
                           progress |-> IF Len(imageUrls) > 0 THEN "1 asset(s) ready"
                                        ELSE "Response received",
                           imageUrls |-> imageUrls]),
                sessionId, StatusLine(now, "Image response received")),
            sessionId,
            Message("assistant",
                    IF Len(imageUrls) > 0 THEN "Generated 1 image."
                    ELSE "Response received.",
                    IF Len(imageUrls) > 0 THEN "success" ELSE "info", imageJobId))

\* handleSubmit up to the await; without a prompt it only reports
SubmitStart ==
    LET trimmedPrompt == trim(vg.prompt)
        names == vg.attachedFiles
        found == activeSessionId # Null /\ findIndex(sessions, activeSessionId) # 0
        sessionId == IF found THEN activeSessionId ELSE UuidPool[uuidCount + 1]
        ensured == IF found THEN nextSessions
                   ELSE createSession(nextSessions,
                                      Spread(NewSession(sessionId, trimmedPrompt, clock),
                                             [attachments |-> names]))
        sent == sendsRequest(vg.activeTool, vg.selectedModel)
    IN  /\ ~vg.isSubmitting
        /\ submits < limits.submits
        /\ submits' = submits + 1
        /\ pending' = TRUE
        /\ IF trimmedPrompt = <<>>
           THEN /\ nextVg' = [nextVg EXCEPT !.globalError = EmptyPrompt]
                /\ UNCHANGED <<uuidCount, nextActiveSessionId, nextSessions,
                               requests, posts, last>>
           ELSE /\ uuidCount' = IF found THEN uuidCount ELSE uuidCount + 1
                /\ nextActiveSessionId' = IF found THEN nextActiveSessionId ELSE sessionId
                /\ nextSessions' =
                      appendMessage(
                          updateSession(ensured, sessionId,
                                        [prompt |-> trimmedPrompt, tool |-> vg.activeTool,
                                         model |-> vg.selectedModel,
                                         attachments |-> names]),
                          sessionId, Message("user", "lesson", Null, Null))
                /\ nextVg' = [nextVg EXCEPT !.prompt = <<>>, !.isSubmitting = TRUE,
                                            !.globalError = Null]
                /\ requests' = requests \cup {[n |-> submits + 1, sessionId |-> sessionId,
                                               tool |-> vg.activeTool, sent |-> sent]}
                /\ posts' = IF sent THEN posts + 1 ELSE posts
                /\ last' = [op |-> "handleSubmit", id |-> sessionId,
                            arg |-> [prompt |-> trimmedPrompt, attachments |-> names]]
        /\ UNCHANGED <<sessions, activeSessionId, ops, ideal, appended, clock,
                       normVars, vg, poller, nextPoller, lastStatusRef, timer, inflight,
                       remote, network, server, limits, queries, retries, observed,
                       consecFails, giveUps, lateQueries>>

\* handleSubmit after the await: the job is registered, or the catch reports;
\* finally setIsSubmitting(false)
SubmitResolve ==
    \E r \in requests :
        LET response == submitToolRequest(r.sent, network, server, r.n)
            message == caught(r.tool, response)
            queued == message = Null /\ response.jobId # Null
            failed == appendMessage(nextSessions, r.sessionId,
                                    Message("assistant", message, "error", Null))
        IN  /\ requests' = requests \ {r}
            /\ nextSessions' =
                  IF message # Null THEN failed
                  ELSE IF queued
                  THEN jobQueued(nextSessions, r.sessionId, r.tool, response.jobId, clock)
                  ELSE resultReceived(nextSessions, r.sessionId,
                                      UuidPool[uuidCount + 1], response.data, clock)
            /\ uuidCount' = IF message = Null /\ ~queued THEN uuidCount + 1 ELSE uuidCount
            /\ nextVg' = IF message # Null
                         THEN [nextVg EXCEPT !.isSubmitting = FALSE,
                                             !.globalError = message]
                         ELSE IF queued
                         THEN [nextVg EXCEPT !.activeJobId = response.jobId,
                                             !.activeJobSessionId = r.sessionId,
                                             !.attachedFiles = <<>>, !.filesSet = TRUE,
                                             !.isSubmitting = FALSE]
                         ELSE [nextVg EXCEPT !.attachedFiles = <<>>, !.filesSet = TRUE,
                                             !.isSubmitting = FALSE]
            /\ remote' = IF queued /\ response.jobId \in JobIds
                          THEN [remote EXCEPT ![response.jobId] = 1]
                          ELSE remote
            /\ pending' = TRUE
            /\ UNCHANGED <<sessions, activeSessionId, nextActiveSessionId, ops,
                           ideal, appended, last, clock, normVars, vg, poller, nextPoller,
                           lastStatusRef, timer, inflight, network, submits, posts, server, limits,
                           queries, retries, observed, consecFails, giveUps, lateQueries>>

\* React renders VideoGenerator and StatusPolling with the queued state and
\* runs the effects: StatusPolling is mounted while a job is active; its
\* polling effect clears the interval of the render before and, while
\* isPolling, starts a new one and calls pollStatus(); the effect on
\* [prompt, attachedFiles] copies the prompt box and the attachment names
\* into the active session
RenderApp ==
    LET synced == /\ nextVg.prompt # vg.prompt \/ nextVg.filesSet
                  /\ nextActiveSessionId # Null
        shouldMount == nextVg.activeJobId # Null /\ nextVg.activeJobSessionId # Null
        rendered ==
            [mounted |-> TRUE,
             inst |-> IF poller.mounted THEN poller.inst ELSE Len(lastStatusRef) + 1,
             jobId |-> nextVg.activeJobId,
             sessionId |-> nextVg.activeJobSessionId,
             isPolling |-> IF poller.mounted THEN nextPoller.isPolling ELSE TRUE,
             failureCount |-> IF poller.mounted THEN nextPoller.failureCount ELSE 0]
        closure == [inst |-> rendered.inst, jobId |-> rendered.jobId,
                    sessionId |-> rendered.sessionId,
                    failureCount |-> rendered.failureCount]
        polls == shouldMount /\ rendered.isPolling
    IN  /\ pending
        /\ polls => CanQuery
        /\ pending' = synced
        /\ sessions' = nextSessions
        /\ activeSessionId' = nextActiveSessionId
        /\ nextSessions' =
              IF synced
              THEN updateSession(nextSessions, nextActiveSessionId,
                                 [prompt |-> nextVg.prompt,
                                  attachments |-> nextVg.attachedFiles])
              ELSE nextSessions
        /\ vg' = [nextVg EXCEPT !.filesSet = FALSE]
        /\ nextVg' = vg'
        /\ poller' = IF shouldMount THEN rendered ELSE NoPoller
        /\ nextPoller' = IF shouldMount
                         THEN [isPolling |-> rendered.isPolling,
                               failureCount |-> rendered.failureCount]
                         ELSE [isPolling |-> TRUE, failureCount |-> 0]
        /\ lastStatusRef' =
              IF shouldMount /\ ~poller.mounted THEN Append(lastStatusRef, <<>>)
              ELSE IF shouldMount /\ poller.jobId # rendered.jobId
                   THEN [lastStatusRef EXCEPT ![rendered.inst] = <<>>]
                   ELSE lastStatusRef
        /\ timer' = IF polls THEN {closure} ELSE {}
        /\ inflight' = IF polls THEN Append(inflight, NewQuery(closure)) ELSE inflight
        /\ queries' = IF polls /\ network = "up" THEN queries + 1 ELSE queries
        /\ retries' = IF polls /\ network = "down" THEN retries + 1 ELSE retries
        /\ lateQueries' = IF polls /\ giveUps[rendered.jobId] > 0
                          THEN [lateQueries EXCEPT ![rendered.jobId] = @ + 1]
                          ELSE lateQueries
        /\ UNCHANGED <<nextActiveSessionId, uuidCount, ops, ideal, appended, last,
                       clock, normVars, requests, remote, network, submits, posts,
                       server, limits, observed, consecFails, giveUps>>

\* the interval fires: the pollStatus of the render that set it runs
Tick ==
    \E closure \in timer :
        /\ Len(inflight) < limits.inflight
        /\ CanQuery
        /\ inflight' = Append(inflight, NewQuery(closure))
        /\ queries' = IF network = "up" THEN queries + 1 ELSE queries
        /\ retries' = IF network = "down" THEN retries + 1 ELSE retries
        /\ lateQueries' = IF giveUps[closure.jobId] > 0
                          THEN [lateQueries EXCEPT ![closure.jobId] = @ + 1]
                          ELSE lateQueries
        /\ UNCHANGED <<storeVars, clock, normVars, vg, nextVg, poller, nextPoller,
                       lastStatusRef, timer, requests, remote, network, pending, submits, posts, server, limits,
                       observed, consecFails, giveUps>>

\* a status query settles and pollStatus continues after its await, with the
\* props and state of the render that created it; the setters of an instance
\* that is no longer mounted do nothing
Deliver ==
    \E i \in 1..Len(inflight) :
        LET q == inflight[i]
            live == poller.mounted /\ poller.inst = q.inst
            ok == q.reply # 0
            data == Stages[q.reply]
            nextFailures == q.failureCount + 1
            gaveUp == ~ok /\ nextFailures > GiveUpAfter
            ended == gaveUp \/ (ok /\ data.status \in {"COMPLETED", "FAILED"})
        IN  /\ inflight' = SubSeq(inflight, 1, i - 1)
                             \o SubSeq(inflight, i + 1, Len(inflight))
            /\ nextSessions' =
                  IF ok
                  THEN pollStatusOk(nextSessions, q.sessionId, q.jobId, data,
                                    lastStatusRef[q.inst], clock)
                  ELSE pollStatusCatch(nextSessions, q.sessionId, q.jobId,
                                       nextFailures, clock)
            /\ lastStatusRef' =
                  IF ok THEN [lastStatusRef EXCEPT
                                 ![q.inst] = <<data.status, data.progress>>]
                  ELSE lastStatusRef
            /\ nextPoller' =
                  IF ~live THEN nextPoller
                  ELSE [isPolling |-> IF ended THEN FALSE ELSE nextPoller.isPolling,
                        failureCount |-> IF ok THEN 0 ELSE nextFailures]
            /\ nextVg' = IF gaveUp
                         THEN [nextVg EXCEPT !.activeJobId = Null,
                                             !.activeJobSessionId = Null,
                                             !.globalError = ConnectionLost]
                         ELSE IF ended /\ data.status = "FAILED"
                         THEN [nextVg EXCEPT !.activeJobId = Null,
                                             !.activeJobSessionId = Null,
                                             !.globalError = data.progress]
                         ELSE IF ended
                         THEN [nextVg EXCEPT !.activeJobId = Null,
                                             !.activeJobSessionId = Null]
                         ELSE nextVg
            /\ pending' = TRUE
            /\ observed' = IF ok THEN [observed EXCEPT ![q.jobId] = Append(@, q.reply)]
                           ELSE observed
            /\ consecFails' = [consecFails EXCEPT ![q.jobId] = IF ok THEN 0 ELSE @ + 1]
            /\ giveUps' = IF gaveUp THEN [giveUps EXCEPT ![q.jobId] = @ + 1] ELSE giveUps
            /\ UNCHANGED <<sessions, activeSessionId, nextActiveSessionId, uuidCount, ops,
                           ideal, appended, last, clock, normVars, vg, poller, timer,
                           requests, remote, network, submits, posts, server, limits, queries, retries,
                           lateQueries>>

\* the server moves the job to its next stage
RemoteAdvance ==
    \E j \in JobIds : \E next \in {2} \cup limits.completions :
        /\ network = "up"
        /\ remote[j] \in {1, 2}
        /\ next = 2 <=> remote[j] = 1
        /\ remote' = [remote EXCEPT ![j] = next]
        /\ UNCHANGED <<storeVars, clock, normVars, vg, nextVg, poller, nextPoller,
                       lastStatusRef, timer, inflight, requests, network, pending,
                       submits, posts, server, limits, queries, retries, observed, consecFails, giveUps,
                       lateQueries>>

\* the server gives the job up
RemoteFail ==
    \E j \in JobIds :
        /\ network = "up"
        /\ remote[j] \in {1, 2}
        /\ remote' = [remote EXCEPT ![j] = 4]
        /\ UNCHANGED <<storeVars, clock, normVars, vg, nextVg, poller, nextPoller,
                       lastStatusRef, timer, inflight, requests, network, pending,
                       submits, posts, server, limits, queries, retries, observed, consecFails, giveUps,
                       lateQueries>>

\* from here on every request fails
NetworkDown ==
    /\ network = "up"
    /\ network' = "down"
    /\ UNCHANGED <<storeVars, clock, normVars, vg, nextVg, poller, nextPoller,
                   lastStatusRef, timer, inflight, requests, remote, pending, submits, posts, server, limits,
                   queries, retries, observed, consecFails, giveUps, lateQueries>>

\* a session without messages or jobs, as readStorage returns it, with the
\* prompt typed since
EmptySession(id, now) == Spread(NewSession(id, <<"lesson">>, now), [pinned |-> FALSE])

InitPoll ==
    /\ \/ sessions = <<>> /\ activeSessionId = Null
       \/ sessions = <<EmptySession("s1", 1)>> /\ activeSessionId \in {Null, "s1"}
    /\ nextSessions = sessions
    /\ nextActiveSessionId = activeSessionId
    /\ uuidCount = 0
    /\ clock = 3
    /\ ops = 0
    /\ ideal = <<>>
    /\ appended = <<>>
    /\ last = [op |-> "init"]
    /\ NormIdle
    /\ PollIdle

NextPoll ==
    \/ SubmitStart
    \/ SubmitResolve
    \/ RenderApp
    \/ Tick
    \/ Deliver
    \/ RemoteAdvance
    \/ RemoteFail
    \/ NetworkDown

SpecPoll == InitPoll /\ [][NextPoll]_vars

\* one job through a long outage that begins after the first query
RetryLimits ==
    [submits |-> MaxSubmits, queries |-> MaxJobQueries, retries |-> MaxRetries,
     faults |-> MaxRetries, inflight |-> MaxJobInFlight, completions |-> {3}, texts |-> {<<"lesson">>}]

InitRetry ==
    /\ sessions = <<>> /\ activeSessionId = Null
    /\ nextSessions = sessions
    /\ nextActiveSessionId = activeSessionId
    /\ uuidCount = 0
    /\ clock = 3
    /\ ops = 0
    /\ ideal = <<>>
    /\ appended = <<>>
    /\ last = [op |-> "init"]
    /\ NormIdle
    /\ Idle(Typed("video", <<"lesson">>, <<>>), "job", RetryLimits)

SpecRetry == InitRetry /\ [][NextPoll]_vars

\* the jobs of either tool, from submission to their end: every kind of
\* completion, with fewer queries than SpecPoll
JobLimits ==
    [submits |-> MaxSubmits, queries |-> MaxJobQueries, retries |-> MaxRetries,
     faults |-> MaxJobFaults, inflight |-> MaxJobInFlight,
     completions |-> {3, 5, 6}, texts |-> {<<"lesson">>}]

InitJobs ==
    /\ sessions = <<>> /\ activeSessionId = Null
    /\ nextSessions = sessions
    /\ nextActiveSessionId = activeSessionId
    /\ uuidCount = 0
    /\ clock = 3
    /\ ops = 0
    /\ ideal = <<>>
    /\ appended = <<>>
    /\ last = [op |-> "init"]
    /\ NormIdle
    /\ \E tool \in DOMAIN MODEL_CONFIG : \E reply \in {"job", "result"} :
          Idle(Typed(tool, <<"lesson">>, <<>>), reply, JobLimits)

SpecJobs == InitJobs /\ [][NextPoll]_vars

-----------------------------------------------------------------------------
(* The submission boundary: VideoGenerator with either tool and any model    *)
(* handed to handleModelChange, against an endpoint answering in each way.   *)

\* the strings handleModelChange is called with: models of either tool
ModelChoices ==
    {getDefaultModel("video"), MODEL_CONFIG["video"][2][1], getDefaultModel("image")}

\* setActiveTool(tool); setSelectedModel(getDefaultModel(tool));
\* setAttachedFiles([])
HandleToolChange ==
    \E tool \in DOMAIN MODEL_CONFIG :
        /\ tool # nextVg.activeTool
        /\ nextVg' = [nextVg EXCEPT !.activeTool = tool,
                                    !.selectedModel = getDefaultModel(tool),
                                    !.attachedFiles = <<>>, !.filesSet = TRUE]
        /\ pending' = TRUE
        /\ UNCHANGED <<storeVars, clock, normVars, vg, poller, nextPoller, lastStatusRef,
                       timer, inflight, requests, remote, network, submits, posts, server, limits,
                       queries, retries, observed, consecFails, giveUps, lateQueries>>

\* setSelectedModel(model)
HandleModelChange ==
    \E model \in ModelChoices :
        /\ model # nextVg.selectedModel
        /\ nextVg' = [nextVg EXCEPT !.selectedModel = model]
        /\ pending' = TRUE
        /\ UNCHANGED <<storeVars, clock, normVars, vg, poller, nextPoller, lastStatusRef,
                       timer, inflight, requests, remote, network, submits, posts, server, limits,
                       queries, retries, observed, consecFails, giveUps, lateQueries>>

InitSubmit ==
    /\ \/ sessions = <<>> /\ activeSessionId = Null
       \/ sessions = <<StoredSession("s1", 1, TRUE)>> /\ activeSessionId \in {Null, "s1"}
    /\ nextSessions = sessions
    /\ nextActiveSessionId = activeSessionId
    /\ uuidCount = 0
    /\ clock = 3
    /\ ops = 0
    /\ ideal = <<>>
    /\ appended = <<>>
    /\ last = [op |-> "init"]
    /\ NormIdle
    /\ \E tool \in DOMAIN MODEL_CONFIG : vg = Typed(tool, <<"lesson">>, <<>>)
    /\ nextVg = vg
    /\ poller = NoPoller
    /\ nextPoller = [isPolling |-> TRUE, failureCount |-> 0]
    /\ lastStatusRef = <<>>
    /\ timer = {}
    /\ inflight = <<>>
    /\ requests = {}
    /\ remote = [j \in PolledIds |-> 0]
    /\ network = "up"
    /\ pending = FALSE
    /\ submits = 0
    /\ posts = 0
    /\ server \in ReplyKinds
    /\ limits = PollLimits
    /\ queries = 0
    /\ retries = 0
    /\ observed = [j \in PolledIds |-> <<>>]
    /\ consecFails = [j \in PolledIds |-> 0]
    /\ giveUps = [j \in PolledIds |-> 0]
    /\ lateQueries = [j \in PolledIds |-> 0]

NextSubmit ==
    \/ HandleToolChange
    \/ HandleModelChange
    \/ SubmitStart
    \/ SubmitResolve
    \/ RenderApp
    \/ NetworkDown

SpecSubmit == InitSubmit /\ [][NextSubmit]_vars

-----------------------------------------------------------------------------
(* The prompt box: the user types, attaches files and sends; the effect on   *)
(* [prompt, attachedFiles] keeps the active session in step with the box.    *)

\* what the user types into the box
PromptTexts == {<<>>, <<" ">>, <<"lesson">>, <<" ", "lesson", " ">>}

\* the names of the files attached
FileLists == {<<>>, <<"notes.pdf">>}

\* onChange={setPrompt}
HandlePromptChange ==
    \E text \in limits.texts :
        /\ text # nextVg.prompt
        /\ nextVg' = [nextVg EXCEPT !.prompt = text]
        /\ pending' = TRUE
        /\ last' = [op |-> "setPrompt"]
        /\ UNCHANGED <<sessions, activeSessionId, nextSessions, nextActiveSessionId,
                       uuidCount, ops, ideal, appended, clock, normVars, vg, poller,
                       nextPoller, lastStatusRef, timer, inflight, requests, remote,
                       network, submits, posts, server, limits, queries, retries,
                       observed, consecFails, giveUps, lateQueries>>

PromptLimits == [PollLimits EXCEPT !.texts = PromptTexts]

\* the box after typing and attaching; the effect has copied it into the
\* active session
InitPrompt ==
    /\ \E tool \in DOMAIN MODEL_CONFIG : \E text \in PromptTexts : \E files \in FileLists :
          /\ \E reply \in {"job", "result", "httpError"} :
                Idle(Typed(tool, text, files), reply, PromptLimits)
          /\ \/ sessions = <<>> /\ activeSessionId = Null
             \/ /\ sessions = <<EmptySession("s1", 1)>>
                /\ activeSessionId = Null
             \/ /\ sessions = <<Spread(EmptySession("s1", 1),
                                        [prompt |-> text, attachments |-> files])>>
                /\ activeSessionId = "s1"
    /\ nextSessions = sessions
    /\ nextActiveSessionId = activeSessionId
    /\ uuidCount = 0
    /\ clock = 3
    /\ ops = 0
    /\ ideal = <<>>
    /\ appended = <<>>
    /\ last = [op |-> "init"]
    /\ NormIdle

NextPrompt ==
    \/ HandlePromptChange
    \/ SubmitStart
    \/ SubmitResolve
    \/ RenderApp

SpecPrompt == InitPrompt /\ [][NextPrompt]_vars

-----------------------------------------------------------------------------
(* A second submission while the job of the first is still polled: the user  *)
(* types a prompt again and sends it; StatusPolling stays mounted and is     *)
(* handed the new job id.                                                    *)

ResubmitLimits ==
    [submits |-> MaxResubmits, queries |-> MaxJobQueries, retries |-> MaxJobFaults,
     faults |-> MaxJobFaults, inflight |-> MaxJobInFlight, completions |-> {3}, texts |-> {<<"lesson">>}]

InitResubmit ==
    /\ sessions = <<>> /\ activeSessionId = Null
    /\ nextSessions = sessions
    /\ nextActiveSessionId = activeSessionId
    /\ uuidCount = 0
    /\ clock = 3
    /\ ops = 0
    /\ ideal = <<>>
    /\ appended = <<>>
    /\ last = [op |-> "init"]
    /\ NormIdle
    /\ Idle(Typed("video", <<"lesson">>, <<>>), "job", ResubmitLimits)

NextResubmit ==
    \/ HandlePromptChange
    \/ SubmitStart
    \/ SubmitResolve
    \/ RenderApp
    \/ Tick
    \/ Deliver
    \/ RemoteFail
    \/ NetworkDown

SpecResubmit == InitResubmit /\ [][NextResubmit]_vars

-----------------------------------------------------------------------------
(* Properties of submission and polling *)

\* the i-th query in flight is the one whose response this step delivered
Delivered(i) ==
    /\ i \in 1..Len(inflight)
    /\ inflight' = SubSeq(inflight, 1, i - 1) \o SubSeq(inflight, i + 1, Len(inflight))

\* C1: a successful response carrying the (status, progress) pair of the
\* successful response before it, for the same job, appends nothing to that
\* job's history.
HistoryAppendsOnlyOnChange ==
    [][\A i \in 1..Len(inflight) :
          LET q == inflight[i]
              seen == observed[q.jobId]
          IN  (/\ Delivered(i)
               /\ q.reply # 0
               /\ seen # <<>>
               /\ seen[Len(seen)] = q.reply)
              => \A s \in 1..Len(nextSessions) :
                    q.jobId \in DOMAIN nextSessions[s].jobs
                    => nextSessions'[s].jobs[q.jobId].history
                           = nextSessions[s].jobs[q.jobId].history]_vars

\* the statuses of a job's history, in order
Statuses(job) == [k \in 1..Len(job.history) |-> job.history[k].status]

\* C2: when every status query for a submitted video job was answered, the
\* answers were QUEUED, then ANALYZING_SCRIPT, then COMPLETED with a video URL,
\* and nothing is in flight or waiting to be rendered, the job's session has
\* that URL, the job is COMPLETED and its history is exactly QUEUED,
\* ANALYZING_SCRIPT, COMPLETED.
CompletedJobHasThreeEntries ==
    \A j \in JobIds :
        (observed[j] = <<1, 2, 3>> /\ retries = 0 /\ inflight = <<>> /\ ~pending)
        => \E s \in 1..Len(sessions) :
              /\ j \in DOMAIN sessions[s].jobs
              /\ sessions[s].videoUrl = Stages[3].video_url
              /\ sessions[s].jobs[j].status = "COMPLETED"
              /\ Statuses(sessions[s].jobs[j])
                     = <<"QUEUED", "ANALYZING_SCRIPT", "COMPLETED">>

\* C3: the connectivity error is reported at most once per job, it has been
\* reported exactly when the job's queries have failed GiveUpAfter + 1 times
\* in a row, and no query for the job is sent after it.
RetryGivesUpOnce ==
    \A j \in JobIds :
        /\ giveUps[j] <= 1
        /\ consecFails[j] >= GiveUpAfter + 1 => giveUps[j] = 1
        /\ giveUps[j] = 1 => consecFails[j] >= GiveUpAfter + 1
        /\ lateQueries[j] = 0

\* C4: a response delivered while the job's stored status is COMPLETED or
\* FAILED leaves the job's status, progress and history as they are.
TerminalJobIgnoresPolls ==
    [][\A i \in 1..Len(inflight) :
          LET q == inflight[i]
          IN  Delivered(i)
              => \A s \in 1..Len(nextSessions) :
                    (/\ q.jobId \in DOMAIN nextSessions[s].jobs
                     /\ nextSessions[s].jobs[q.jobId].status \in {"COMPLETED", "FAILED"})
                    => LET before == nextSessions[s].jobs[q.jobId]
                           after == nextSessions'[s].jobs[q.jobId]
                       IN  /\ after.status = before.status
                           /\ after.progress = before.progress
                           /\ after.history = before.history]_vars

\* C17: for every job, at most one status query is in flight.
OneQueryInFlightPerJob ==
    \A j \in JobIds :
        Cardinality({i \in 1..Len(inflight) : inflight[i].jobId = j}) <= 1

\* C18: a response delivered when the instance that sent the query is no
\* longer mounted, or is polling another job, changes nothing in the store and
\* calls neither onSuccess nor onError (whose handlers write the store and
\* VideoGenerator's active job).
UnmountedPollerDiscardsResponse ==
    [][\A i \in 1..Len(inflight) :
          LET q == inflight[i]
          IN  (/\ Delivered(i)
               /\ ~(poller.mounted /\ poller.inst = q.inst /\ poller.jobId = q.jobId))
              => UNCHANGED <<nextSessions, nextVg>>]_vars

\* C19: a status query is sent only by the render that mounts the poller (the
\* immediate first query) or by a step that renders nothing, the timer's tick.
QueriesOnlyOnTicks ==
    [][Len(inflight') > Len(inflight)
          => (~poller.mounted \/ ~(pending /\ ~pending'))]_vars

\* C20: a failed status query that leaves the retry budget unexhausted leaves
\* the status field of the job as it was.
RetryKeepsJobStatus ==
    [][\A i \in 1..Len(inflight) :
          LET q == inflight[i]
          IN  (/\ Delivered(i)
               /\ q.reply = 0
               /\ q.failureCount + 1 <= GiveUpAfter)
              => \A s \in 1..Len(nextSessions) :
                    q.jobId \in DOMAIN nextSessions[s].jobs
                    => nextSessions'[s].jobs[q.jobId].status
                           = nextSessions[s].jobs[q.jobId].status]_vars

-----------------------------------------------------------------------------
(* Properties of the store *)

\* C5: the stored status log never has more than 50 lines and is always the
\* last min(n, 50) of the n lines appended so far, in the order appended.
LogKeepsLastFifty ==
    LET log == nextSessions[1].statusHistory
        n == Len(appended)
        m == IF n < 50 THEN n ELSE 50
    IN  /\ Len(log) <= 50
        /\ Len(log) = m
        /\ \A i \in 1..m : log[i] = appended[n - m + i]

\* C5 witness: a line was appended to a full log, so the oldest line was dropped
LogOverflowed ==
    /\ last.op = "appendStatus"
    /\ Len(appended) > 50
    /\ Len(nextSessions[1].statusHistory) = 50

\* C6: the queued collection is what applying the issued operations one after
\* another, each to the result of the one before, gives.
NoLostUpdate == nextSessions = ideal

\* C7: deleteSession(id) removes the session with that id, clears the active
\* pointer when it was id and leaves it alone otherwise.
DeleteClearsOnlyActive ==
    last.op = "deleteSession" =>
        /\ \A i \in 1..Len(nextSessions) : nextSessions[i].id # last.id
        /\ nextSessions = SelectSeq(last.pre, LAMBDA s : s.id # last.id)
        /\ last.preActive = last.id => nextActiveSessionId = Null
        /\ last.preActive # last.id => nextActiveSessionId = last.preActive

\* C7 witness: a stored session that is not the active one was deleted
DeletedInactiveSession ==
    /\ last.op = "deleteSession"
    /\ findIndex(last.pre, last.id) # 0
    /\ last.preActive \notin {last.id, Null}
    /\ nextActiveSessionId = last.preActive

\* C8: duplicateSession(S) on a session of the store adds one session with an
\* unused id, pinned false, S's messages and jobs as they are at the call, and
\* makes it active; a later job or message mutation of one session leaves every
\* other session as it was.
DuplicateCopiesSource ==
    /\ (last.op = "duplicateSession" /\ findIndex(last.pre, last.id) # 0) =>
          LET source == last.pre[findIndex(last.pre, last.id)]
              clone == nextSessions[1]
          IN  /\ Len(nextSessions) = Len(last.pre) + 1
              /\ Tail(nextSessions) = last.pre
              /\ \A i \in 1..Len(last.pre) : last.pre[i].id # clone.id
              /\ clone.pinned = FALSE
              /\ clone.messages = source.messages
              /\ clone.jobs = source.jobs
              /\ nextActiveSessionId = clone.id
    /\ last.op \in {"appendMessage", "registerJob", "updateJob", "appendJobStatus"} =>
          /\ Len(nextSessions) = Len(last.pre)
          /\ \A i \in 1..Len(last.pre) :
                last.pre[i].id # last.id => nextSessions[i] = last.pre[i]

\* C10: createSession(s) makes s.id active; an unknown id is inserted at the
\* front, the others keeping their order; a known id is merged in place, the
\* length unchanged, fields absent from s (messages and jobs among them) kept.
CreateInsertsOrMerges ==
    last.op = "createSession" =>
        LET s == last.arg
            pre == last.pre
            at == findIndex(pre, s.id)
        IN  /\ nextActiveSessionId = s.id
            /\ at = 0 =>
                  /\ Len(nextSessions) = Len(pre) + 1
                  /\ Tail(nextSessions) = pre
                  /\ \A k \in DOMAIN s : nextSessions[1][k] = s[k]
                  /\ "messages" \notin DOMAIN s => nextSessions[1].messages = <<>>
                  /\ "jobs" \notin DOMAIN s => DOMAIN nextSessions[1].jobs = {}
            /\ at # 0 =>
                  /\ Len(nextSessions) = Len(pre)
                  /\ \A j \in 1..Len(pre) : j # at => nextSessions[j] = pre[j]
                  /\ \A k \in DOMAIN s : nextSessions[at][k] = s[k]
                  /\ \A k \in (DOMAIN pre[at]) \ (DOMAIN s) :
                        nextSessions[at][k] = pre[at][k]

\* C10 witness: a session object without messages and jobs was merged into a
\* stored session that has both, behind another session
CreateMergedIntoExisting ==
    /\ last.op = "createSession"
    /\ findIndex(last.pre, last.id) = 2
    /\ "messages" \notin DOMAIN last.arg
    /\ nextSessions[2].messages # <<>>
    /\ DOMAIN nextSessions[2].jobs # {}

\* C9: a loaded session is a fixed point of normalizeSession, whatever the
\* time and the uuids of the second pass, and a collection that was loaded,
\* written to storage and loaded again is the collection of the load before.
NormalizeIdempotentAndRoundTrips ==
    /\ \A i \in 1..Len(loaded) :
          normalizeSession(loaded[i], clock, Fresh(loads + 1, i)) = loaded[i]
    /\ readStorage(ToJson(Arr(loaded)), clock, loads + 1) = loaded
    /\ loads >= 2 => loaded = prevLoaded

\* C9 witness: the first load gave a record its id and its creation time, and
\* the collection has been written back and loaded again
ReloadedDefaultedRecord ==
    /\ loads = 2
    /\ \E i \in 1..Len(loaded) :
          /\ loaded[i].v.id = Str(UuidPool[1])
          /\ loaded[i].v.createdAt = Num(InitialClock)

\* the operations that address one session, and the job id the last one named
AddressedOps ==
    {"updateSession", "appendStatus", "appendMessage", "registerJob", "updateJob",
     "appendJobStatus"}

LastJobId ==
    IF last.op = "updateJob" THEN last.arg[1]
    ELSE IF last.op = "appendJobStatus" THEN last.arg
    ELSE Null

\* C12: after an operation addressed to a session id, the collection has the
\* sessions it had, every session with another id is as it was, and the whole
\* collection is as it was when no session has that id or, for updateJob and
\* appendJobStatus, when the addressed session has no job of the given id.
AddressedOpsTouchOnlyTheirTarget ==
    last.op \in AddressedOps
    => /\ Len(nextSessions) = Len(last.pre)
       /\ \A i \in 1..Len(last.pre) :
             last.pre[i].id # last.id => nextSessions[i] = last.pre[i]
       /\ findIndex(last.pre, last.id) = 0 => nextSessions = last.pre
       /\ (/\ last.op \in {"updateJob", "appendJobStatus"}
           /\ \A i \in 1..Len(last.pre) :
                 last.pre[i].id = last.id => LastJobId \notin DOMAIN last.pre[i].jobs)
          => nextSessions = last.pre

\* C12 witness: updateJob named a job that the addressed, existing session
\* does not have, next to another session
UpdatedMissingJob ==
    /\ last.op = "updateJob"
    /\ Len(last.pre) = 2
    /\ findIndex(last.pre, last.id) # 0
    /\ LastJobId \notin DOMAIN last.pre[findIndex(last.pre, last.id)].jobs

\* C14: readStorage never fails.  Whatever localStorage holds (nothing, text
\* that is not JSON, JSON that is no array, an array with malformed elements)
\* no exception escapes it and it returns a list of sessions, and the list is
\* empty when the text cannot be parsed.
IsSession(x) ==
    /\ x.t = "obj"
    /\ {"id", "prompt", "tool", "model", "createdAt", "videoUrl", "statusHistory",
        "attachments", "messages", "jobId", "jobs", "pinned"} \subseteq DOMAIN x.v
    /\ x.v.id.t = "str"
    /\ x.v.prompt.t = "str"
    /\ x.v.createdAt.t = "num"
    /\ x.v.statusHistory.t = "arr"
    /\ x.v.attachments.t = "arr"
    /\ x.v.messages.t = "arr"
    /\ x.v.jobs.t = "obj"
    /\ x.v.pinned.t = "bool"

ReadStorageNeverFails ==
    /\ ~crashed
    /\ \A i \in 1..Len(loaded) : IsSession(loaded[i])
    /\ (loads = 1 /\ ~persisted /\ thrownBy(stored) # "none") => loaded = <<>>

LoadedUnreadableStorage ==
    /\ loads = 1
    /\ ~persisted
    /\ thrownBy(stored) = "TypeError"
    /\ loaded = <<>>
    /\ ~crashed

\* C13: whenever the store is quiescent (every enqueued update rendered and
\* the effects run), the stored collection is the serialization of the
\* in-memory collection and the stored active-session record is the in-memory
\* pointer, the record being absent exactly when the pointer is null.
Quiescent ==
    /\ persisted
    /\ nextSessions = sessions
    /\ nextActiveSessionId = activeSessionId

QuiescentStoreIsPersisted ==
    Quiescent => /\ stored = Serialized(sessions)
                 /\ storedActive = activeSessionId
                 /\ (storedActive = Null) <=> (activeSessionId = Null)

PersistedAfterClearingPointer ==
    /\ Quiescent
    /\ ops = 2
    /\ last.op = "setActiveSession"
    /\ last.preActive = "s1"
    /\ activeSessionId = Null
    /\ Len(sessions) = 2
    /\ sessions # FromJs(Arr(loaded))

\* C11: in every reachable state of the store, every key k of a session's jobs
\* mapping holds the job whose id is k, and no operation changes the id of a
\* session: registerJob, updateJob, appendJobStatus and updateSession keep
\* both, and the sessions normalized at load start with both.
JobsKeyedById(list) ==
    \A i \in 1..Len(list) : \A k \in DOMAIN list[i].jobs : list[i].jobs[k].id = k

Ids(list) == [i \in 1..Len(list) |-> list[i].id]

JobKeysAndSessionIdsStable ==
    /\ JobsKeyedById(sessions)
    /\ JobsKeyedById(nextSessions)
    /\ last.op \in {"registerJob", "updateJob", "appendJobStatus", "updateSession",
                    "appendStatus", "appendMessage", "togglePinSession"}
       => Ids(nextSessions) = Ids(last.pre)
    /\ last.op = "deleteSession" => Ids(nextSessions) = Ids(FilterOut(last.pre, last.id))
    /\ last.op \in {"createSession", "duplicateSession"}
       => \/ Ids(nextSessions) = Ids(last.pre)
          \/ Tail(Ids(nextSessions)) = Ids(last.pre)

RegisteredOverLoadedJob ==
    /\ last.op = "registerJob"
    /\ ops = 2
    /\ findIndex(last.pre, last.id) # 0
    /\ LET before == last.pre[findIndex(last.pre, last.id)].jobs
           after == nextSessions[findIndex(last.pre, last.id)].jobs
       IN  /\ Cardinality(DOMAIN before) = 2
           /\ last.arg.id \in DOMAIN before
           /\ before[last.arg.id].status = "COMPLETED"
           /\ DOMAIN after = DOMAIN before
           /\ after[last.arg.id] = last.arg

\* C15: when the model is not configured for the tool, submitToolRequest
\* fails before it issues a request, and handleSubmit catches the failure:
\* the error text is shown, no job is registered and the submitting flag is
\* false again.
Unconfigured(tool, model) ==
    \A i \in 1..Len(MODEL_CONFIG[tool]) : MODEL_CONFIG[tool][i][1] # model

JobKeys(list) == [i \in 1..Len(list) |-> DOMAIN list[i].jobs]

ConfigurationErrorIsCaught ==
    [][/\ (/\ submits' = submits + 1
           /\ trim(vg.prompt) # <<>>
           /\ Unconfigured(vg.activeTool, vg.selectedModel))
          => /\ posts' = posts
             /\ \E r \in requests' \ requests : ~r.sent
       /\ \A r \in requests \ requests' :
             ~r.sent => /\ nextVg'.globalError = NotConfigured
                        /\ ~nextVg'.isSubmitting
                        /\ nextVg'.activeJobId = nextVg.activeJobId
                        /\ JobKeys(nextSessions') = JobKeys(nextSessions)
                        /\ posts' = posts]_vars

ConfigurationErrorShown ==
    /\ submits = 1
    /\ posts = 0
    /\ requests = {}
    /\ vg.globalError = NotConfigured
    /\ ~vg.isSubmitting
    /\ Unconfigured(vg.activeTool, vg.selectedModel)
    /\ \E i \in 1..Len(sessions) :
          /\ sessions[i].messages # <<>>
          /\ sessions[i].messages[Len(sessions[i].messages)]
                = Message("assistant", NotConfigured, "error", Null)

\* C16: for every tool, when a submission is answered with a non-success HTTP
\* response or with a body that cannot be parsed, handleSubmit registers no
\* job, appends exactly one assistant message with status error that carries
\* the failure text, and leaves the jobs and the earlier messages as they were.
FailureTexts == {"detail", "Request failed", NoVideoJobId}

FailedSubmissionOnlyReports ==
    [][\A r \in requests \ requests' :
          (r.sent /\ network = "up" /\ server \in {"badBody", "httpError", "httpErrorNoBody"})
          => /\ Len(nextSessions') = Len(nextSessions)
             /\ \A i \in 1..Len(nextSessions) :
                   /\ nextSessions'[i].jobs = nextSessions[i].jobs
                   /\ IF nextSessions[i].id = r.sessionId
                      THEN \E text \in FailureTexts :
                              nextSessions'[i].messages =
                                  Append(nextSessions[i].messages,
                                         Message("assistant", text, "error", Null))
                      ELSE nextSessions'[i].messages = nextSessions[i].messages]_vars

\* C24: at a page load every record of the stored array yields exactly one
\* loaded session: a record with missing or malformed fields, a null or a
\* value that is no object is rebuilt with defaults, and none makes itself or
\* another record disappear.
EveryStoredRecordIsLoaded ==
    (loads = 1 /\ ~persisted /\ IsArray(stored)) => Len(loaded) = Len(stored.v)

IsPrefix(a, b) == Len(a) <= Len(b) /\ SubSeq(b, 1, Len(a)) = a

\* C23: a job's history only grows, and only at its end: whatever operation
\* is applied to the store, every job that a session holds before and after
\* it has its earlier history as a prefix of its later history.
JobHistoryOnlyGrows ==
    [][\A i \in 1..Len(nextSessions) : \A k \in 1..Len(nextSessions') :
          nextSessions[i].id = nextSessions'[k].id =>
              \A j \in (DOMAIN nextSessions[i].jobs) \cap (DOMAIN nextSessions'[k].jobs) :
                  IsPrefix(nextSessions[i].jobs[j].history,
                           nextSessions'[k].jobs[j].history)]_vars

\* the onSuccess and onError calls pollStatus has made for a job: one for
\* every COMPLETED response, one for every FAILED response and one for every
\* failure beyond the retry budget
TerminalCalls(j) ==
    Cardinality({i \in 1..Len(observed[j]) :
                     Stages[observed[j][i]].status \in {"COMPLETED", "FAILED"}})
        + giveUps[j]

\* C27: for each job the poller calls onSuccess or onError at most once in
\* total, over all timer ticks, effect re-runs and responses in flight.
TerminalCallbackAtMostOnce == \A j \in JobIds : TerminalCalls(j) <= 1

\* C25: submitToolRequest returns a job id exactly when the body of the
\* response carries a job id string in job_id; for a body without one (field
\* missing or null, body not an object) handleSubmit activates no job and no
\* status query is sent.
JobIdOnlyFromJobIdString ==
    /\ nextVg.activeJobId # Null =>
           server = "job" /\ \E n \in 1..Len(JobPool) : nextVg.activeJobId = JobPool[n]
    /\ inflight # <<>> => server = "job"

\* C30: once handleSubmit has run for a prompt that is not blank and the
\* state updates and effects it caused have settled, the session of the
\* submission stores the trimmed prompt and the names of the files that were
\* attached; clearing the box does not overwrite them.
SubmittedPromptIsStored ==
    (last.op = "handleSubmit" /\ ~pending /\ requests = {}) =>
        \A i \in 1..Len(sessions) :
            sessions[i].id = last.id =>
                /\ sessions[i].prompt = last.arg.prompt
                /\ sessions[i].attachments = last.arg.attachments

\* every request has been answered and every state update rendered
Settled == inflight = <<>> /\ requests = {} /\ ~pending

\* C22: with the network up, once the server holds a job at COMPLETED or
\* FAILED and a status query has reported it, then, when every query has
\* settled, polling has stopped, the stored status of the job is that
\* terminal status and onSuccess or onError has been called.
TerminalStatusIsFinal ==
    \A j \in JobIds :
        (/\ Settled
         /\ network = "up"
         /\ remote[j] \in Terminal
         /\ \E k \in 1..Len(observed[j]) : observed[j][k] = remote[j])
        => /\ timer = {}
           /\ TerminalCalls(j) >= 1
           /\ \A i \in 1..Len(sessions) :
                  j \in DOMAIN sessions[i].jobs =>
                      sessions[i].jobs[j].status = Stages[remote[j]].status

\* C29: in every state of the store that handleSubmit, the status poller and
\* the success and error handlers produce, a job whose history is not empty
\* has the status of the last entry of its history.
JobStatusIsLastEntry ==
    \A i \in 1..Len(nextSessions) : \A j \in DOMAIN nextSessions[i].jobs :
        LET job == nextSessions[i].jobs[j]
        IN  job.history # <<>> => job.status = job.history[Len(job.history)].status

\* a job that was retried until the budget ran out and then marked FAILED
JobRetriedThenGivenUp ==
    \E i \in 1..Len(nextSessions) : \E j \in DOMAIN nextSessions[i].jobs :
        LET history == nextSessions[i].jobs[j].history
        IN  /\ Len(history) > GiveUpAfter
            /\ history[Len(history) - 1].status = "RETRYING"
            /\ history[Len(history)].status = "FAILED"
            /\ nextSessions[i].jobs[j].status = "FAILED"

\* C21: onError("Connection lost...") is called only when the 11 status
\* queries of the job that settled last all failed: a successful query
\* resets the count, and no interleaving of queries in flight makes the
\* poller give up after fewer consecutive failures.
GiveUpNeedsElevenFailures ==
    [][\A j \in PolledIds :
          giveUps'[j] > giveUps[j] => consecFails'[j] > GiveUpAfter]_vars

\* C26: while a newer job is the active one, the response to a status query
\* of an earlier job (COMPLETED, FAILED or the failure that exhausts the
\* retries) neither deactivates the newer job nor stops the poller.
LateResponseSparesNewJob ==
    [][\A i \in 1..Len(inflight) :
          (/\ Delivered(i)
           /\ nextVg.activeJobId # Null
           /\ inflight[i].jobId # nextVg.activeJobId)
          => /\ nextVg'.activeJobId = nextVg.activeJobId
             /\ nextPoller'.isPolling = nextPoller.isPolling]_vars

\* C28: the failure count belongs to the job: a render that hands the
\* mounted poller another job id starts that job with a count of zero, and
\* the poller gives a job up only after 11 consecutive failures of that
\* job's own queries.
FailureCountIsPerJob ==
    [][/\ (poller.mounted /\ poller'.mounted /\ poller'.jobId # poller.jobId)
          => poller'.failureCount = 0
       /\ \A j \in PolledIds :
             giveUps'[j] > giveUps[j] => consecFails'[j] > GiveUpAfter]_vars

=============================================================================
